---------------------------- MODULE Spec2Model ----------------------------
(***************************************************************************)
(* A model of simplecache-go: the generic indexed entry table of           *)
(* src/cache.go (package simplecache, lines 84-467) and the untyped table  *)
(* of src/ttl.go.                                                          *)
(*                                                                         *)
(* Every exported operation takes the table's lock for its whole critical  *)
(* section, so in the sequential specifications below one operation is one *)
(* action.  Positions are 1-based here (Go position i is i+1).  The clock  *)
(* time.Now().UnixNano() is the variable now, which only moves forward.    *)
(***************************************************************************)
EXTENDS Integers, Sequences, FiniteSets, TLC

\* ---------------------------------------------------------------- bounds
Keys == {"a", "b"}
Values == {1, 2}
\* The clock runs from 1 to MaxTime.
MaxTime == 3

\* ------------------------------------------------------------- constants
NoExpiration == -1
DefaultExpiration == 0
\* The zero value of V and of time.Time (the named results v and t).
ZeroV == 0
ZeroTime == 0
\* The durations callers pass as d, and as defaultExpiration to New.
TTLs == {NoExpiration, DefaultExpiration, 1}
DefaultTTLs == {0, 3}
\* The callbacks a caller may register with OnEvicted; "nil" disables.
Callbacks == {"nil", "f"}

VARIABLES
    now,                \* the reading of time.Now().UnixNano()
    defaultExpiration,  \* cache.defaultExpiration
    items,              \* cache.items (the slice up to its length)
    indices,            \* cache.indices
    onEvicted,          \* cache.onEvicted
    last,               \* the last call: its arguments, results and callback calls
    sh,                 \* the sharded store: shardedCache{seed, m, cs}
    h,                  \* the priority expiry structure: heap{entries, indices}
    conc,               \* concurrent callers: the locks and each thread's position
    jan                 \* the background sweep task: its ticker, stop channel, position

vars == <<now, defaultExpiration, items, indices, onEvicted, last, sh, h, conc, jan>>

\* What the operations of a single table used by sequential callers leave alone.
others == <<sh, h, conc, jan>>

EmptyMap == [k \in {} |-> 0]

\* entry[K, V]{key, value, Expiration}
Entry(k, x, e) == [key |-> k, value |-> x, Expiration |-> e]

\* The record of a call; each operation fills in the fields it has: its
\* arguments k, x, d; its results ok, err, v, t, n; out, the calls it made to
\* the caller's function (the eviction callback, Foreach's fn) or the list it
\* returned; and three facts about the state it started from: was, what the
\* table held for k, len0, how many entries it held, and e0, the Expiration
\* of the entry of k.  panic: the call ended in a run-time panic.  f0 and f:
\* the callback registered when the call removed entries, and the one called.
Res(op) ==
    [op |-> op, k |-> "-", x |-> ZeroV, d |-> 0, ok |-> FALSE, err |-> FALSE,
     v |-> ZeroV, t |-> ZeroTime, n |-> 0, out |-> <<>>, was |-> "-", len0 |-> 0,
     e0 |-> 0, panic |-> FALSE, f |-> "-", f0 |-> "-"]

\* Go's integer division truncates toward zero.
GoDiv(a, b) == IF a >= 0 THEN a \div b ELSE -((-a) \div b)

\* ------------------------------------------------------- pure operations

\* expiry without the substitution of the default.
expiryNoDefault(de, t, d) == IF d > 0 THEN t + d ELSE 0

\* The expiry Set and set store: d == 0 takes the default, d > 0 is now + d.
expiry(de, t, d) ==
    LET d1 == IF d = DefaultExpiration THEN de ELSE d
    IN  IF d1 > 0 THEN t + d1 ELSE 0

\* cache.set: overwrite in place or append and index.
set(its, ixs, de, t, k, x, d) ==
    LET e == expiry(de, t, d)
    IN  IF k \in DOMAIN ixs
        THEN [items |-> [its EXCEPT ![ixs[k]] = Entry(k, x, e)], indices |-> ixs]
        ELSE [items |-> Append(its, Entry(k, x, e)),
              indices |-> (k :> (Len(its) + 1)) @@ ixs]

\* get without the expiry test.
getNoExpiry(its, ixs, t, k) ==
    IF k \notin DOMAIN ixs
    THEN [v |-> ZeroV, ok |-> FALSE]
    ELSE [v |-> its[ixs[k]].value, ok |-> TRUE]

\* cache.get (and the body of Get): absent or expired is not found.
get(its, ixs, t, k) ==
    IF k \notin DOMAIN ixs
    THEN [v |-> ZeroV, ok |-> FALSE]
    ELSE LET item == its[ixs[k]]
         IN  IF item.Expiration > 0 /\ t > item.Expiration
             THEN [v |-> ZeroV, ok |-> FALSE]
             ELSE [v |-> item.value, ok |-> TRUE]

\* What the table holds for k at time t.
Was(its, ixs, t, k) ==
    IF k \notin DOMAIN ixs THEN "absent"
    ELSE IF its[ixs[k]].Expiration > 0 /\ t > its[ixs[k]].Expiration THEN "expired"
    ELSE "live"

\* delete that leaves k in indices.
deleteKeepsIndex(arr, ixs, cb, k) ==
    IF k \notin DOMAIN ixs
    THEN [arr |-> arr, len |-> Cardinality(DOMAIN ixs), indices |-> ixs,
          v |-> ZeroV, ok |-> FALSE]
    ELSE LET idx  == ixs[k]
             n    == Cardinality(DOMAIN ixs)
             arr1 == [arr EXCEPT ![n] = arr[idx], ![idx] = arr[n]]
             ixs1 == (arr1[idx].key :> idx) @@ ixs
         IN  [arr |-> arr1, len |-> n - 1, indices |-> ixs1,
              v |-> IF cb # "nil" THEN arr1[n].value ELSE ZeroV, ok |-> cb # "nil"]

\* delete that reads the value it returns from the slot of the moved entry.
deleteWrongValue(arr, ixs, cb, k) ==
    IF k \notin DOMAIN ixs
    THEN [arr |-> arr, len |-> Cardinality(DOMAIN ixs), indices |-> ixs,
          v |-> ZeroV, ok |-> FALSE]
    ELSE LET idx  == ixs[k]
             n    == Cardinality(DOMAIN ixs)
             arr1 == [arr EXCEPT ![n] = arr[idx], ![idx] = arr[n]]
             ixs1 == (arr1[idx].key :> idx) @@ ixs
             ixs2 == [j \in (DOMAIN ixs1) \ {k} |-> ixs1[j]]
         IN  [arr |-> arr1, len |-> n - 1, indices |-> ixs2,
              v |-> IF cb # "nil" THEN arr1[idx].value ELSE ZeroV, ok |-> cb # "nil"]

\* delete that does not re-index the entry it moved.
deleteNoReindex(arr, ixs, cb, k) ==
    IF k \notin DOMAIN ixs
    THEN [arr |-> arr, len |-> Cardinality(DOMAIN ixs), indices |-> ixs,
          v |-> ZeroV, ok |-> FALSE]
    ELSE LET idx  == ixs[k]
             n    == Cardinality(DOMAIN ixs)
             arr1 == [arr EXCEPT ![n] = arr[idx], ![idx] = arr[n]]
             ixs2 == [j \in (DOMAIN ixs) \ {k} |-> ixs[j]]
         IN  [arr |-> arr1, len |-> n - 1, indices |-> ixs2,
              v |-> IF cb # "nil" THEN arr1[n].value ELSE ZeroV, ok |-> cb # "nil"]

\* delete that overwrites the slot with the last entry and gives that entry
\* the zero Expiration.
deleteResetsMoved(arr, ixs, cb, k) ==
    IF k \notin DOMAIN ixs
    THEN [arr |-> arr, len |-> Cardinality(DOMAIN ixs), indices |-> ixs,
          v |-> ZeroV, ok |-> FALSE]
    ELSE LET idx  == ixs[k]
             n    == Cardinality(DOMAIN ixs)
             arr1 == [arr EXCEPT ![n] = arr[idx],
                                 ![idx] = [arr[n] EXCEPT !.Expiration = 0]]
             ixs1 == (arr1[idx].key :> idx) @@ ixs
             ixs2 == [j \in (DOMAIN ixs1) \ {k} |-> ixs1[j]]
         IN  [arr |-> arr1, len |-> n - 1, indices |-> ixs2,
              v |-> IF cb # "nil" THEN arr1[n].value ELSE ZeroV, ok |-> cb # "nil"]

\* cache.delete on the backing array arr (the slice is arr up to len(indices)):
\* swap the entry with the last one, re-index the moved entry, erase k, truncate.
\* The value and ok = TRUE are returned only when a callback is registered.
delete(arr, ixs, cb, k) ==
    IF k \notin DOMAIN ixs
    THEN [arr |-> arr, len |-> Cardinality(DOMAIN ixs), indices |-> ixs,
          v |-> ZeroV, ok |-> FALSE]
    ELSE LET idx  == ixs[k]
             n    == Cardinality(DOMAIN ixs)
             arr1 == [arr EXCEPT ![n] = arr[idx], ![idx] = arr[n]]
             ixs1 == (arr1[idx].key :> idx) @@ ixs
             ixs2 == [j \in (DOMAIN ixs1) \ {k} |-> ixs1[j]]
         IN  IF cb # "nil"
             THEN [arr |-> arr1, len |-> n - 1, indices |-> ixs2,
                   v |-> arr1[n].value, ok |-> TRUE]
             ELSE [arr |-> arr1, len |-> n - 1, indices |-> ixs2,
                   v |-> ZeroV, ok |-> FALSE]

\* The loop without the Expiration > 0 test: a never-expiring entry is swept.
RECURSIVE sweepZeroExpires(_, _, _, _, _, _, _, _)
sweepZeroExpires(i, n0, arr, ixs, ln, cb, t, evs) ==
    IF i > n0
    THEN [items |-> SubSeq(arr, 1, ln), indices |-> ixs, out |-> evs]
    ELSE LET v == arr[i]
         IN  IF t > v.Expiration
             THEN LET r == delete(arr, ixs, cb, v.key)
                  IN  sweepZeroExpires(i + 1, n0, r.arr, r.indices, r.len, cb, t,
                            IF r.ok THEN Append(evs, <<v.key, v.value>>) ELSE evs)
             ELSE sweepZeroExpires(i + 1, n0, arr, ixs, ln, cb, t, evs)

\* The loop collecting the evictions in front of the earlier ones.
RECURSIVE sweepPrepends(_, _, _, _, _, _, _, _)
sweepPrepends(i, n0, arr, ixs, ln, cb, t, evs) ==
    IF i > n0
    THEN [items |-> SubSeq(arr, 1, ln), indices |-> ixs, out |-> evs]
    ELSE LET v == arr[i]
         IN  IF v.Expiration > 0 /\ t > v.Expiration
             THEN LET r == delete(arr, ixs, cb, v.key)
                  IN  sweepPrepends(i + 1, n0, r.arr, r.indices, r.len, cb, t,
                            IF r.ok THEN <<<<v.key, v.value>>>> \o evs ELSE evs)
             ELSE sweepPrepends(i + 1, n0, arr, ixs, ln, cb, t, evs)

\* The loop leaving at the first entry that is not expired.
RECURSIVE sweepStopsAtLive(_, _, _, _, _, _, _, _)
sweepStopsAtLive(i, n0, arr, ixs, ln, cb, t, evs) ==
    IF i > n0
    THEN [items |-> SubSeq(arr, 1, ln), indices |-> ixs, out |-> evs]
    ELSE LET v == arr[i]
         IN  IF v.Expiration > 0 /\ t > v.Expiration
             THEN LET r == delete(arr, ixs, cb, v.key)
                  IN  sweepStopsAtLive(i + 1, n0, r.arr, r.indices, r.len, cb, t,
                            IF r.ok THEN Append(evs, <<v.key, v.value>>) ELSE evs)
             ELSE [items |-> SubSeq(arr, 1, ln), indices |-> ixs, out |-> evs]

\* The loop of DeleteExpired: `for _, v := range c.items` fixes the slice (its
\* backing array and its length n0) when the loop starts and reads arr[i] when
\* it reaches i, whatever delete has swapped there or truncated meanwhile.
RECURSIVE sweep(_, _, _, _, _, _, _, _)
sweep(i, n0, arr, ixs, ln, cb, t, evs) ==
    IF i > n0
    THEN [items |-> SubSeq(arr, 1, ln), indices |-> ixs, out |-> evs]
    ELSE LET v == arr[i]
         IN  IF v.Expiration > 0 /\ t > v.Expiration
             THEN LET r == delete(arr, ixs, cb, v.key)
                  IN  sweep(i + 1, n0, r.arr, r.indices, r.len, cb, t,
                            IF r.ok THEN Append(evs, <<v.key, v.value>>) ELSE evs)
             ELSE sweep(i + 1, n0, arr, ixs, ln, cb, t, evs)

\* The loop of Keys: the keys of the entries that are not expired, in order.
RECURSIVE keys(_, _, _)
keys(its, t, i) ==
    IF i > Len(its)
    THEN <<>>
    ELSE LET v == its[i]
         IN  IF v.Expiration > 0 /\ t > v.Expiration
             THEN keys(its, t, i + 1)
             ELSE <<v.key>> \o keys(its, t, i + 1)

\* newCache: a default of 0 becomes -1 (never expires).
newCache(de) == IF de = 0 THEN -1 ELSE de

\* ------------------------------------------------------------ operations

\* A single table: no shards, no heap, one caller at a time, no sweep task.
NoShards == << >>
NoHeap == << >>
NoThreads == << >>
NoJanitor == << >>

Init ==
    /\ now = 1
    /\ defaultExpiration \in {newCache(de) : de \in DefaultTTLs}
    /\ items = <<>>
    /\ indices = EmptyMap
    /\ onEvicted = "nil"
    /\ last = Res("New")
    /\ sh = NoShards
    /\ h = NoHeap
    /\ conc = NoThreads
    /\ jan = NoJanitor

\* time passes
Tick ==
    /\ now < MaxTime
    /\ now' = now + 1
    /\ last' = Res("Tick")
    /\ UNCHANGED <<defaultExpiration, items, indices, onEvicted, others>>

Set(k, x, d) ==
    LET r == set(items, indices, defaultExpiration, now, k, x, d)
    IN  /\ items' = r.items
        /\ indices' = r.indices
        /\ last' = [Res("Set") EXCEPT !.k = k, !.x = x, !.d = d,
                                      !.was = Was(items, indices, now, k)]
        /\ UNCHANGED <<now, defaultExpiration, onEvicted, others>>

\* Add without the existence test.
AddNoCheck(k, x, d) ==
    LET r == set(items, indices, defaultExpiration, now, k, x, d)
    IN  /\ items' = r.items
        /\ indices' = r.indices
        /\ last' = [Res("Add") EXCEPT !.k = k, !.x = x, !.d = d,
                                      !.was = Was(items, indices, now, k)]
        /\ UNCHANGED <<now, defaultExpiration, onEvicted, others>>

\* Add that tests presence (as Contains does) where the code tests liveness.
AddChecksPresence(k, x, d) ==
    LET r == set(items, indices, defaultExpiration, now, k, x, d)
    IN  /\ IF k \in DOMAIN indices
           THEN /\ UNCHANGED <<items, indices>>
                /\ last' = [Res("Add") EXCEPT !.k = k, !.x = x, !.d = d, !.err = TRUE,
                                              !.was = Was(items, indices, now, k)]
           ELSE /\ items' = r.items
                /\ indices' = r.indices
                /\ last' = [Res("Add") EXCEPT !.k = k, !.x = x, !.d = d,
                                              !.was = Was(items, indices, now, k)]
        /\ UNCHANGED <<now, defaultExpiration, onEvicted, others>>

\* Add: the error when get finds a live entry, else set.
Add(k, x, d) ==
    LET g == get(items, indices, now, k)
        r == set(items, indices, defaultExpiration, now, k, x, d)
    IN  /\ IF g.ok
           THEN /\ UNCHANGED <<items, indices>>
                /\ last' = [Res("Add") EXCEPT !.k = k, !.x = x, !.d = d, !.err = TRUE,
                                              !.was = Was(items, indices, now, k)]
           ELSE /\ items' = r.items
                /\ indices' = r.indices
                /\ last' = [Res("Add") EXCEPT !.k = k, !.x = x, !.d = d,
                                              !.was = Was(items, indices, now, k)]
        /\ UNCHANGED <<now, defaultExpiration, onEvicted, others>>

Contains(k) ==
    /\ last' = [Res("Contains") EXCEPT !.k = k, !.ok = (k \in DOMAIN indices)]
    /\ UNCHANGED <<now, defaultExpiration, items, indices, onEvicted, others>>

Get(k) ==
    LET g == get(items, indices, now, k)
    IN  /\ last' = [Res("Get") EXCEPT !.k = k, !.v = g.v, !.ok = g.ok]
        /\ UNCHANGED <<now, defaultExpiration, items, indices, onEvicted, others>>

\* The pointer &c.items[idx].value is modelled by the value it points at.
GetPointer(k) ==
    LET g == get(items, indices, now, k)
    IN  /\ last' = [Res("GetPointer") EXCEPT !.k = k, !.v = g.v, !.ok = g.ok]
        /\ UNCHANGED <<now, defaultExpiration, items, indices, onEvicted, others>>

GetWithExpiration(k) ==
    LET g == get(items, indices, now, k)
        e == IF g.ok THEN items[indices[k]].Expiration ELSE 0
    IN  /\ last' = [Res("GetWithExpiration") EXCEPT
                       !.k = k, !.v = g.v, !.ok = g.ok,
                       !.t = IF e > 0 THEN e ELSE ZeroTime]
        /\ UNCHANGED <<now, defaultExpiration, items, indices, onEvicted, others>>

\* GetAndRenewal that renews whatever time is left.
GetAndRenewalAlways(k) ==
    IF k \notin DOMAIN indices
    THEN /\ last' = [Res("GetAndRenewal") EXCEPT !.k = k, !.was = "absent"]
         /\ UNCHANGED <<now, defaultExpiration, items, indices, onEvicted, others>>
    ELSE LET idx == indices[k]
             exp == GoDiv(defaultExpiration, 3)
             e   == items[idx].Expiration
             e1  == IF e > 0 THEN e + exp ELSE e
         IN  /\ items' = [items EXCEPT ![idx].Expiration = e1]
             /\ last' = [Res("GetAndRenewal") EXCEPT
                            !.k = k, !.v = items[idx].value, !.ok = TRUE,
                            !.was = Was(items, indices, now, k), !.e0 = e]
             /\ UNCHANGED <<now, defaultExpiration, indices, onEvicted, others>>

\* GetAndRenewal: found whenever k is indexed; under the entry's lock, an
\* Expiration > 0 with Expiration - now <= defaultExpiration/3 grows by
\* defaultExpiration/3.
GetAndRenewal(k) ==
    IF k \notin DOMAIN indices
    THEN /\ last' = [Res("GetAndRenewal") EXCEPT !.k = k, !.was = "absent"]
         /\ UNCHANGED <<now, defaultExpiration, items, indices, onEvicted, others>>
    ELSE LET idx == indices[k]
             exp == GoDiv(defaultExpiration, 3)
             e   == items[idx].Expiration
             e1  == IF e > 0 /\ e - now <= exp THEN e + exp ELSE e
         IN  /\ items' = [items EXCEPT ![idx].Expiration = e1]
             /\ last' = [Res("GetAndRenewal") EXCEPT
                            !.k = k, !.v = items[idx].value, !.ok = TRUE,
                            !.was = Was(items, indices, now, k), !.e0 = e]
             /\ UNCHANGED <<now, defaultExpiration, indices, onEvicted, others>>

\* Delete: delete under the lock, then the callback, if delete reported one.
Delete(k) ==
    LET r == delete(items, indices, onEvicted, k)
    IN  /\ items' = SubSeq(r.arr, 1, r.len)
        /\ indices' = r.indices
        /\ last' = [Res("Delete") EXCEPT
                       !.k = k, !.out = IF r.ok THEN <<<<k, r.v>>>> ELSE <<>>,
                       !.was = Was(items, indices, now, k)]
        /\ UNCHANGED <<now, defaultExpiration, onEvicted, others>>

\* DeleteExpired: one pass under the lock, then the collected callbacks.
DeleteExpired ==
    LET r == sweep(1, Len(items), items, indices, Len(items), onEvicted, now, <<>>)
    IN  /\ items' = r.items
        /\ indices' = r.indices
        /\ last' = [Res("DeleteExpired") EXCEPT !.out = r.out, !.len0 = Len(items)]
        /\ UNCHANGED <<now, defaultExpiration, onEvicted, others>>

OnEvicted(f) ==
    /\ onEvicted' = f
    /\ last' = Res("OnEvicted")
    /\ UNCHANGED <<now, defaultExpiration, items, indices, others>>

KeysOp ==
    /\ last' = [Res("Keys") EXCEPT !.out = keys(items, now, 1)]
    /\ UNCHANGED <<now, defaultExpiration, items, indices, onEvicted, others>>

LenOp ==
    /\ last' = [Res("Len") EXCEPT !.n = Len(items)]
    /\ UNCHANGED <<now, defaultExpiration, items, indices, onEvicted, others>>

\* Foreach: fn is called with every stored entry, expired or not.
Foreach ==
    /\ last' = [Res("Foreach") EXCEPT
                   !.out = [i \in 1..Len(items) |-> <<items[i].key, items[i].value>>]]
    /\ UNCHANGED <<now, defaultExpiration, items, indices, onEvicted, others>>

\* Purge that truncates items and keeps the index mapping.
PurgeKeepsIndices ==
    /\ items' = <<>>
    /\ last' = [Res("Purge") EXCEPT !.len0 = Len(items)]
    /\ UNCHANGED <<now, defaultExpiration, indices, onEvicted, others>>

\* Purge: zero and truncate items, a new empty indices; no callback.
Purge ==
    /\ items' = <<>>
    /\ indices' = EmptyMap
    /\ last' = [Res("Purge") EXCEPT !.len0 = Len(items)]
    /\ UNCHANGED <<now, defaultExpiration, onEvicted, others>>

Next ==
    \/ Tick
    \/ \E k \in Keys, x \in Values, d \in TTLs : Set(k, x, d)
    \/ \E k \in Keys, x \in Values, d \in TTLs : Add(k, x, d)
    \/ \E k \in Keys : Contains(k)
    \/ \E k \in Keys : Get(k)
    \/ \E k \in Keys : GetPointer(k)
    \/ \E k \in Keys : GetWithExpiration(k)
    \/ \E k \in Keys : GetAndRenewal(k)
    \/ \E k \in Keys : Delete(k)
    \/ DeleteExpired
    \/ \E f \in Callbacks : OnEvicted(f)
    \/ KeysOp
    \/ LenOp
    \/ Foreach
    \/ Purge

Spec == Init /\ [][Next]_vars

\* ------------------------------------------- the untyped table (ttl.go)
\* The table of src/ttl.go has the same fields; in SpecTTL the variables
\* items, indices and onEvicted are its fields.  Its AddTTL, setTTL, Get,
\* delete and the loop of DeleteExpired are, line for line, the code of Set,
\* set, Get, delete and DeleteExpired of the generic table, so the operators
\* set, get, delete and sweep model them too.  Its keys are of type
\* interface{}: a value of that type is modelled as the pair of its dynamic
\* type and its value.

Dyn(type, val) == <<type, val>>

\* The loop of the untyped Keys: `for k, v := range c.items` binds k to the
\* position (from 0) and v to the entry, and the loop appends k.
RECURSIVE keysTTL(_, _, _)
keysTTL(its, t, i) ==
    IF i > Len(its)
    THEN <<>>
    ELSE LET v == its[i]
             k == i - 1
         IN  IF v.Expiration > 0 /\ t > v.Expiration
             THEN keysTTL(its, t, i + 1)
             ELSE <<Dyn("int", k)>> \o keysTTL(its, t, i + 1)

UAddTTL(k, x, d) ==
    LET r == set(items, indices, defaultExpiration, now, k, x, d)
    IN  /\ items' = r.items
        /\ indices' = r.indices
        /\ last' = [Res("UAddTTL") EXCEPT !.k = k, !.x = x, !.d = d,
                                          !.was = Was(items, indices, now, k)]
        /\ UNCHANGED <<now, defaultExpiration, onEvicted, others>>

\* The untyped Add: setTTL with the default expiration, no existence test.
UAdd(k, x) ==
    LET r == set(items, indices, defaultExpiration, now, k, x, DefaultExpiration)
    IN  /\ items' = r.items
        /\ indices' = r.indices
        /\ last' = [Res("UAdd") EXCEPT !.k = k, !.x = x,
                                       !.was = Was(items, indices, now, k)]
        /\ UNCHANGED <<now, defaultExpiration, onEvicted, others>>

UGet(k) ==
    LET g == get(items, indices, now, k)
    IN  /\ last' = [Res("UGet") EXCEPT !.k = k, !.v = g.v, !.ok = g.ok]
        /\ UNCHANGED <<now, defaultExpiration, items, indices, onEvicted, others>>

UGetWithExpiration(k) ==
    LET g == get(items, indices, now, k)
        e == IF g.ok THEN items[indices[k]].Expiration ELSE 0
    IN  /\ last' = [Res("UGetWithExpiration") EXCEPT
                       !.k = k, !.v = g.v, !.ok = g.ok,
                       !.t = IF e > 0 THEN e ELSE ZeroTime]
        /\ UNCHANGED <<now, defaultExpiration, items, indices, onEvicted, others>>

UDelete(k) ==
    LET r == delete(items, indices, onEvicted, k)
    IN  /\ items' = SubSeq(r.arr, 1, r.len)
        /\ indices' = r.indices
        /\ last' = [Res("UDelete") EXCEPT
                       !.k = k, !.out = IF r.ok THEN <<<<k, r.v>>>> ELSE <<>>,
                       !.was = Was(items, indices, now, k)]
        /\ UNCHANGED <<now, defaultExpiration, onEvicted, others>>

UDeleteExpired ==
    LET r == sweep(1, Len(items), items, indices, Len(items), onEvicted, now, <<>>)
    IN  /\ items' = r.items
        /\ indices' = r.indices
        /\ last' = [Res("UDeleteExpired") EXCEPT !.out = r.out, !.len0 = Len(items)]
        /\ UNCHANGED <<now, defaultExpiration, onEvicted, others>>

UOnEvicted(f) ==
    /\ onEvicted' = f
    /\ last' = Res("UOnEvicted")
    /\ UNCHANGED <<now, defaultExpiration, items, indices, others>>

UKeys ==
    /\ last' = [Res("UKeys") EXCEPT !.out = keysTTL(items, now, 1)]
    /\ UNCHANGED <<now, defaultExpiration, items, indices, onEvicted, others>>

UCount ==
    /\ last' = [Res("UCount") EXCEPT !.n = Len(items)]
    /\ UNCHANGED <<now, defaultExpiration, items, indices, onEvicted, others>>

UForeach ==
    /\ last' = [Res("UForeach") EXCEPT
                   !.out = [i \in 1..Len(items) |-> <<items[i].key, items[i].value>>]]
    /\ UNCHANGED <<now, defaultExpiration, items, indices, onEvicted, others>>

UPurge ==
    /\ items' = <<>>
    /\ indices' = EmptyMap
    /\ last' = [Res("UPurge") EXCEPT !.len0 = Len(items)]
    /\ UNCHANGED <<now, defaultExpiration, onEvicted, others>>

NextTTL ==
    \/ Tick
    \/ \E k \in Keys, x \in Values, d \in TTLs : UAddTTL(k, x, d)
    \/ \E k \in Keys, x \in Values : UAdd(k, x)
    \/ \E k \in Keys : UGet(k)
    \/ \E k \in Keys : UGetWithExpiration(k)
    \/ \E k \in Keys : UDelete(k)
    \/ UDeleteExpired
    \/ \E f \in Callbacks : UOnEvicted(f)
    \/ UKeys
    \/ UCount
    \/ UForeach
    \/ UPurge

SpecTTL == Init /\ [][NextTTL]_vars

\* ---------------------------------------------------------------- claims

\* Expired(e, t): the entry e is expired at time t.
Expired(e, t) == e.Expiration > 0 /\ t > e.Expiration

\* The entry stored for k (k is indexed).
EntryOf(k) == items[indices[k]]

\* k has a live entry: present and not expired.
Live(k) == k \in DOMAIN indices /\ ~Expired(EntryOf(k), now)

\* C1: a Get, GetWithExpiration or GetPointer of a key whose stored entry has
\* Expiration > 0 and now > Expiration reports not-found (and the zero value),
\* while the entry is still physically stored; after a sweep removed it, the
\* key is absent and the read reports not-found as well.
C1_LazyExpiry ==
    \A k \in Keys :
        (/\ last.op \in {"Get", "GetWithExpiration", "GetPointer"}
         /\ last.k = k
         /\ (k \in DOMAIN indices => Expired(EntryOf(k), now)))
        => (~last.ok /\ last.v = ZeroV /\ last.t = ZeroTime)

C1_Witness ==
    /\ last.op = "Get"
    /\ last.k \in DOMAIN indices
    /\ Expired(EntryOf(last.k), now)
    /\ ~last.ok

\* C2: an entry stored with Expiration = 0 (what Set(k, v, NoExpiration)
\* stores) stays stored with the same value and Expiration = 0 across every
\* step that is not a Set or Delete of k or a Purge: ticks of the clock,
\* DeleteExpired, Set/Add/Delete of other keys; and a Get of k in such a
\* state returns (v, true).
C2_SetStores ==
    (last'.op = "Set" /\ last'.d = NoExpiration)
        => /\ last'.k \in DOMAIN indices'
           /\ items'[indices'[last'.k]] = Entry(last'.k, last'.x, 0)

C2_Kept(k) ==
    (/\ k \in DOMAIN indices
     /\ EntryOf(k).Expiration = 0
     /\ ~(last'.op \in {"Set", "Delete"} /\ last'.k = k)
     /\ last'.op # "Purge")
        => /\ k \in DOMAIN indices'
           /\ items'[indices'[k]].key = k
           /\ items'[indices'[k]].value = EntryOf(k).value
           /\ items'[indices'[k]].Expiration = 0
           /\ (last'.op = "Get" /\ last'.k = k)
                 => (last'.ok /\ last'.v = EntryOf(k).value)

\* C2: every step keeps what Set(k, v, NoExpiration) stored, as stated above.
C2_NoExpirationStays ==
    [][C2_SetStores /\ \A k \in Keys : C2_Kept(k)]_vars

\* A sweep that removed an entry has run, later than the write, and the
\* never-expiring entry is still there.
C2_Witness ==
    /\ last.op = "DeleteExpired"
    /\ Len(items) < last.len0
    /\ \E k \in DOMAIN indices : EntryOf(k).Expiration = 0

\* C3: when DeleteExpired returns, no entry left in items is expired at the
\* time the call sampled.
C3_SweepRemovesAllExpired ==
    last.op = "DeleteExpired"
        => \A i \in 1..Len(items) : ~Expired(items[i], now)

C5_AddStep ==
    (last'.op = "Add" /\ ~Live(last'.k))
        => /\ ~last'.err
           /\ get(items', indices', now', last'.k) = [v |-> last'.x, ok |-> TRUE]
           /\ Cardinality({i \in 1..Len(items') : items'[i].key = last'.k}) = 1
           /\ Len(items') = IF last'.k \in DOMAIN indices
                            THEN Len(items) ELSE Len(items) + 1

C5_GetStep ==
    (/\ last.op = "Add" /\ ~last.err
     /\ last'.op = "Get" /\ last'.k = last.k)
        => (last'.ok /\ last'.v = last.x)

\* C5: every Add on an absent or expired key succeeds, and the Get that
\* follows returns what it stored, as stated above.
C5_AddAbsentOrExpired == [][C5_AddStep /\ C5_GetStep]_vars

C5_Witness ==
    /\ last.op = "Add"
    /\ last.was = "expired"
    /\ ~last.err
    /\ Len(items) = 2

\* C6: Delete of a present key removes it from items and from indices (Len
\* drops by one, Contains and Get turn false); Delete of an absent key
\* changes nothing; an Add of the key right after the Delete succeeds and
\* Get returns the added value.
C6_DeleteStep ==
    last'.op = "Delete"
        => IF last'.k \in DOMAIN indices
           THEN /\ Len(items') = Len(items) - 1
                /\ last'.k \notin DOMAIN indices'
                /\ \A i \in 1..Len(items') : items'[i].key # last'.k
                /\ ~get(items', indices', now', last'.k).ok
           ELSE items' = items /\ indices' = indices

C6_AfterDelete ==
    (last.op = "Delete" /\ last'.k = last.k)
        => /\ last'.op \in {"Contains", "Get"} => ~last'.ok
           /\ last'.op = "Add"
                 => /\ ~last'.err
                    /\ get(items', indices', now', last'.k)
                           = [v |-> last'.x, ok |-> TRUE]

\* C6: every Delete removes the key from items and indices or changes
\* nothing, and the key can be added again, as stated above.
C6_Delete == [][C6_DeleteStep /\ C6_AfterDelete]_vars

C6_Witness ==
    /\ last.op = "Delete"
    /\ last.was # "absent"
    /\ Len(items) = 1

\* C7: Delete of a present key with a callback registered calls it exactly
\* once, with the key and the value stored for it; with no callback, or for
\* an absent key, Delete calls nothing.
C7_DeleteCallback ==
    [][last'.op = "Delete"
          => last'.out = IF onEvicted # "nil" /\ last'.k \in DOMAIN indices
                         THEN << <<last'.k, EntryOf(last'.k).value>> >>
                         ELSE << >>]_vars

C7_Witness ==
    /\ last.op = "Delete"
    /\ Len(last.out) = 1
    /\ Len(items) = 1
    /\ items[1].value # last.out[1][2]

\* The keys of the entries that are live now.
LiveKeys == {k \in DOMAIN indices : ~Expired(EntryOf(k), now)}

\* The generic half of C8: Keys of the generic table returns exactly the
\* live keys, each once.
C8_GenericKeysLive ==
    last.op = "Keys"
        => /\ {last.out[i] : i \in 1..Len(last.out)} = LiveKeys
           /\ Len(last.out) = Cardinality(LiveKeys)

C8_GenericWitness ==
    /\ last.op = "Keys"
    /\ Len(last.out) = 1
    /\ Len(items) = 2

\* C8: Keys returns exactly the keys of the entries that are live at the
\* call, each once and nothing else, in the generic table and in the untyped
\* table.
C8_KeysLive ==
    /\ C8_GenericKeysLive
    /\ last.op = "UKeys"
          => /\ {last.out[i] : i \in 1..Len(last.out)}
                    = {Dyn("string", k) : k \in LiveKeys}
             /\ Len(last.out) = Cardinality(LiveKeys)

\* C9: Purge leaves items and indices empty, so every Get is not-found and
\* Len is 0, and calls no callback; a Set or Add that follows stores its
\* entry at the first position, as on a new table.
C9_PurgeState ==
    last.op = "Purge"
        => /\ items = << >>
           /\ indices = EmptyMap
           /\ last.out = << >>
           /\ \A k \in Keys : ~get(items, indices, now, k).ok

C9_AfterPurge ==
    last.op = "Purge"
        => /\ last'.op = "Get" => ~last'.ok
           /\ last'.op = "Len" => last'.n = 0
           /\ last'.op \in {"Set", "Add"}
                 => /\ ~last'.err
                    /\ items' = << Entry(last'.k, last'.x,
                                         expiry(defaultExpiration, now, last'.d)) >>
                    /\ indices' = (last'.k :> 1)

\* C9: every Purge empties the table without a callback, and the table then
\* behaves as a new one, as stated above.
C9_Purge == [][C9_PurgeState' /\ C9_AfterPurge]_vars

C9_Witness ==
    /\ last.op = "Purge"
    /\ last.len0 = 2
    /\ onEvicted # "nil"

\* C10: a write with d = DefaultExpiration uses the table's default; a
\* resulting d > 0 stores Expiration = now + d, a resulting d < 0 stores
\* Expiration = 0; a table created with a default of 0 has a negative
\* default, so a write with DefaultExpiration stores an entry that never
\* expires.
C10_ExpiryOnWrite ==
    /\ newCache(0) < 0
    /\ (last.op = "Set" \/ (last.op = "Add" /\ ~last.err))
          => LET d1 == IF last.d = DefaultExpiration
                       THEN defaultExpiration ELSE last.d
                 e  == EntryOf(last.k).Expiration
             IN  /\ d1 > 0 => e = now + d1
                 /\ d1 < 0 => e = 0
                 /\ (defaultExpiration = newCache(0) /\ last.d = DefaultExpiration)
                       => (e = 0 /\ \A t \in now..(MaxTime + 1) :
                                       get(items, indices, t, last.k).ok)

C10_Witness ==
    /\ last.op = "Set"
    /\ last.d = DefaultExpiration
    /\ defaultExpiration = newCache(0)
    /\ EntryOf(last.k).Expiration = 0
    /\ now > 1

C16_IndexInvariant ==
    /\ Len(items) = Cardinality(DOMAIN indices)
    /\ \A i, j \in 1..Len(items) : items[i].key = items[j].key => i = j
    /\ \A k \in DOMAIN indices :
          indices[k] \in 1..Len(items) /\ items[indices[k]].key = k
    /\ \A i \in 1..Len(items) :
          items[i].key \in DOMAIN indices /\ indices[items[i].key] = i

\* A delete has moved the last entry into the slot of the removed one.
C16_Witness ==
    /\ last.op \in {"Delete", "DeleteExpired"}
    /\ Len(items) = 1
    /\ last.was = "live" \/ last.len0 = 2
    /\ items[1].key = "b"

\* C17: a Delete(k) or DeleteExpired step keeps every entry it does not
\* remove: the key is still indexed, at a position inside items, with the
\* same value and Expiration, and get returns what it returned before.
\* Delete removes nothing but k, DeleteExpired nothing but expired entries.
C17_Kept(k) ==
    /\ k \in DOMAIN indices'
    /\ indices'[k] \in 1..Len(items')
    /\ items'[indices'[k]] = EntryOf(k)
    /\ get(items', indices', now', k) = get(items, indices, now, k)

C17_Frame ==
    [][/\ last'.op = "Delete"
            => \A k \in DOMAIN indices : k # last'.k => C17_Kept(k)
       /\ last'.op = "DeleteExpired"
            => /\ DOMAIN indices' \subseteq DOMAIN indices
               /\ \A k \in DOMAIN indices :
                     (k \in DOMAIN indices' \/ ~Expired(EntryOf(k), now))
                        => C17_Kept(k)]_vars

\* A sweep removed one entry and kept a live one that expires later.
C17_Witness ==
    /\ last.op = "DeleteExpired"
    /\ last.len0 = 2
    /\ Len(items) = 1
    /\ items[1].Expiration > 0
    /\ ~Expired(items[1], now)

\* C18: GetAndRenewal of a key whose entry is expired and not yet swept
\* reports not-found and leaves the entry as it is, and an expired entry
\* does not become visible to get again by any step but a Set or Add of it.
C18_RenewalChecksLiveness ==
    [][/\ (/\ last'.op = "GetAndRenewal"
           /\ last'.k \in DOMAIN indices
           /\ Expired(EntryOf(last'.k), now))
             => (~last'.ok /\ items' = items)
       /\ \A k \in DOMAIN indices :
             (/\ Expired(EntryOf(k), now)
              /\ ~(last'.op \in {"Set", "Add"} /\ last'.k = k))
                => ~get(items', indices', now', k).ok]_vars

-----------------------------------------------------------------------------
\* The heap cache (package gocache): GCache over heap, src/cache.go 1-82 and
\* src/heap.go.  h is the GCache: entries is the slice h.entries (its i-th
\* element, counting from 0 as the code does, is entries[i + 1]), indices
\* the map h.indices with the code's 0-based positions.

MaxHeap == 4
MaxLifeTimes == {1, 2}

HEntry(k, x, t) == [key |-> k, data |-> x, expired |-> t]

heapLen(hp) == Len(hp.entries)

\* heap.Swap: exchange two slots, then index both by the keys found there.
heapSwap(hp, i, j) ==
    LET es  == [hp.entries EXCEPT ![i + 1] = hp.entries[j + 1],
                                  ![j + 1] = hp.entries[i + 1]]
        ix1 == (es[i + 1].key :> i) @@ hp.indices
        ix2 == (es[j + 1].key :> j) @@ ix1
    IN  [hp EXCEPT !.entries = es, !.indices = ix2]

\* heap.Less: entries[i].expired.After(entries[j].expired).
heapLess(hp, i, j) == hp.entries[i + 1].expired > hp.entries[j + 1].expired

\* heap.Push: append, and index the key at the new slot.
heapPush(hp, item) ==
    [hp EXCEPT !.entries = Append(hp.entries, item),
               !.indices = (item.key :> Len(hp.entries)) @@ hp.indices]

\* heap.Pop: drop the last slot and the index of its key.
heapPop(hp) ==
    LET n == Len(hp.entries) - 1
        o == hp.entries[n + 1]
    IN  [h |-> [hp EXCEPT !.entries = SubSeq(hp.entries, 1, n),
                          !.indices = [k \in (DOMAIN hp.indices) \ {o.key}
                                          |-> hp.indices[k]]],
         o |-> o]

\* container/heap.up
RECURSIVE up(_, _)
up(hp, j) ==
    LET i == GoDiv(j - 1, 2)
    IN  IF i = j \/ ~heapLess(hp, j, i) THEN hp ELSE up(heapSwap(hp, i, j), i)

\* container/heap.down; i is the slot the element ended in.
RECURSIVE down(_, _, _)
down(hp, i, n) ==
    LET j1 == 2 * i + 1
    IN  IF j1 >= n \/ j1 < 0
        THEN [h |-> hp, i |-> i]
        ELSE LET j == IF j1 + 1 < n /\ heapLess(hp, j1 + 1, j1) THEN j1 + 1 ELSE j1
             IN  IF ~heapLess(hp, j, i)
                 THEN [h |-> hp, i |-> i]
                 ELSE down(heapSwap(hp, i, j), j, n)

\* container/heap.Push, Pop and Fix
cheapPush(hp, item) == up(heapPush(hp, item), Len(hp.entries))

cheapPop(hp) ==
    LET n == Len(hp.entries) - 1
    IN  heapPop(down(heapSwap(hp, 0, n), 0, n).h)

cheapFix(hp, i) ==
    LET d == down(hp, i, Len(hp.entries))
    IN  IF d.i > i THEN d.h ELSE up(hp, i)

\* heap.top: the last slot.
heapTop(hp) == hp.entries[Len(hp.entries)]

\* remove that does not restore the order at the slot it filled.
heapRemoveNoFix(hp, key) ==
    IF key \notin DOMAIN hp.indices
    THEN hp
    ELSE LET n   == Len(hp.entries) - 1
             m   == hp.indices[key]
             es1 == [hp.entries EXCEPT ![n + 1] = hp.entries[m + 1],
                                       ![m + 1] = hp.entries[n + 1]]
             ix1 == (es1[m + 1].key :> m) @@ hp.indices
         IN  [hp EXCEPT !.entries = SubSeq(es1, 1, n),
                        !.indices = [k \in (DOMAIN ix1) \ {key} |-> ix1[k]]]

\* heap.remove
heapRemove(hp, key) ==
    IF key \notin DOMAIN hp.indices
    THEN hp
    ELSE LET n   == Len(hp.entries) - 1
             m   == hp.indices[key]
             es1 == [hp.entries EXCEPT ![n + 1] = hp.entries[m + 1],
                                       ![m + 1] = hp.entries[n + 1]]
             ix1 == (es1[m + 1].key :> m) @@ hp.indices
             hp1 == [hp EXCEPT !.entries = SubSeq(es1, 1, n),
                               !.indices = [k \in (DOMAIN ix1) \ {key} |-> ix1[k]]]
         IN  IF m # n THEN cheapFix(hp1, m) ELSE hp1

\* heap.get: entries[indices[key]]; the map gives 0 for a key it does not
\* hold, and an index outside the slice is a run-time panic.
heapGet(hp, key) ==
    LET idx == IF key \in DOMAIN hp.indices THEN hp.indices[key] ELSE 0
    IN  IF idx < Len(hp.entries)
        THEN [panic |-> FALSE, o |-> <<hp.entries[idx + 1]>>]
        ELSE [panic |-> TRUE, o |-> <<>>]

\* What the heap holds for key when a call starts.
HWas(hp, key) ==
    IF key \in DOMAIN hp.indices \/ \E i \in 1..Len(hp.entries) : hp.entries[i].key = key
    THEN "present" ELSE "absent"

\* New(interval, maxLifeTime)
GCacheNew(m) == [entries |-> <<>>, indices |-> EmptyMap, maxLifeTime |-> m]

tableIdle == <<defaultExpiration, items, indices, onEvicted, sh, conc, jan>>

InitHeap ==
    /\ now = 1
    /\ defaultExpiration = newCache(0)
    /\ items = <<>>
    /\ indices = EmptyMap
    /\ onEvicted = "nil"
    /\ last = Res("New")
    /\ sh = NoShards
    /\ conc = NoThreads
    /\ jan = NoJanitor
    /\ h \in {GCacheNew(m) : m \in MaxLifeTimes}

GCacheAdd(key, x) ==
    /\ Len(h.entries) < MaxHeap
    /\ h' = cheapPush(h, HEntry(key, x, now + h.maxLifeTime))
    /\ last' = [Res("GCache.Add") EXCEPT !.k = key, !.x = x, !.was = HWas(h, key),
                                         !.len0 = Len(h.entries)]
    /\ UNCHANGED <<now, tableIdle>>

GCacheGet(key) ==
    LET r == heapGet(h, key)
    IN  /\ last' = [Res("GCache.Get") EXCEPT !.k = key, !.was = HWas(h, key),
                                             !.panic = r.panic, !.out = r.o,
                                             !.len0 = Len(h.entries)]
        /\ UNCHANGED <<now, h, tableIdle>>

GCacheLen ==
    /\ last' = [Res("GCache.Len") EXCEPT !.n = heapLen(h)]
    /\ UNCHANGED <<now, h, tableIdle>>

\* Pop of an empty heap panics in heap.Swap(0, -1), before any write.
GCachePop ==
    IF Len(h.entries) = 0
    THEN /\ last' = [Res("GCache.Pop") EXCEPT !.panic = TRUE]
         /\ UNCHANGED <<now, h, tableIdle>>
    ELSE LET r == cheapPop(h)
         IN  /\ h' = r.h
             /\ last' = [Res("GCache.Pop") EXCEPT !.out = <<r.o>>,
                                                  !.len0 = Len(h.entries)]
             /\ UNCHANGED <<now, tableIdle>>

GCacheRemove(key) ==
    /\ h' = heapRemove(h, key)
    /\ last' = [Res("GCache.Remove") EXCEPT !.k = key, !.was = HWas(h, key),
                                            !.len0 = Len(h.entries)]
    /\ UNCHANGED <<now, tableIdle>>

GCacheTop ==
    /\ last' = [Res("GCache.Top") EXCEPT
                  !.out = IF heapLen(h) <= 0 THEN <<>> ELSE <<heapTop(h)>>,
                  !.len0 = Len(h.entries)]
    /\ UNCHANGED <<now, h, tableIdle>>

NextHeap ==
    \/ Tick
    \/ \E key \in Keys, x \in Values : GCacheAdd(key, x)
    \/ \E key \in Keys : GCacheGet(key)
    \/ GCacheLen
    \/ GCachePop
    \/ \E key \in Keys : GCacheRemove(key)
    \/ GCacheTop

SpecHeap == InitHeap /\ [][NextHeap]_vars

\* C13: GCache.Get of a key the heap does not hold reports absence: it does
\* not panic, on an empty cache either, and it returns no entry.
C13_GetAbsent ==
    (last.op = "GCache.Get" /\ last.was = "absent")
        => (~last.panic /\ last.out = <<>>)

-----------------------------------------------------------------------------
\* The sharded store, src/unnamed/part_000: shardedCache[V] over N tables of
\* the generic kind.  sh = [seed, m, cs]; a uint32 is the pair <<high 16
\* bits, low 16 bits>>, and a key is hashed through its bytes.

ShardKeys == {"ab", "abcde"}
KeyBytes ==
    ("" :> <<>>) @@ ("a" :> <<97>>) @@ ("b" :> <<98>>) @@
    ("ab" :> <<97, 98>>) @@ ("ac" :> <<97, 99>>) @@
    ("abc" :> <<97, 98, 99>>) @@ ("abd" :> <<97, 98, 100>>) @@
    ("abcd" :> <<97, 98, 99, 100>>) @@ ("abce" :> <<97, 98, 99, 101>>) @@
    ("abcde" :> <<97, 98, 99, 100, 101>>) @@ ("abcdf" :> <<97, 98, 99, 100, 102>>) @@
    ("abcdefghi" :> <<97, 98, 99, 100, 101, 102, 103, 104, 105>>) @@
    ("abcdefghj" :> <<97, 98, 99, 100, 101, 102, 103, 104, 106>>)
Seeds == {<<0, 0>>, <<65535, 65535>>}
HashSeeds ==
    Seeds \cup {<<0, 1>>, <<1, 0>>, <<0, 60155>>, <<0, 65535>>, <<4660, 22136>>,
                <<32768, 0>>}
ShardCounts == {1, 2, 3}
ShardTTLs == {NoExpiration, 1}

\* ^ on naturals
RECURSIVE Xor(_, _)
Xor(a, b) ==
    IF a = 0 THEN b
    ELSE IF b = 0 THEN a
    ELSE (((a % 2) + (b % 2)) % 2) + 2 * Xor(a \div 2, b \div 2)

\* uint32 addition of a small number, and d*33, both modulo 2^32
add32(d, n) ==
    LET lo == d[2] + n
    IN  <<(d[1] + (lo \div 65536)) % 65536, lo % 65536>>

mul33(d) ==
    LET lo == d[2] * 33
    IN  <<((d[1] * 33) + (lo \div 65536)) % 65536, lo % 65536>>

\* d = (d * 33) ^ uint32(c)
mix(d, c) == LET e == mul33(d) IN <<e[1], Xor(e[2], c)>>

\* the unrolled loop of djb33: four bytes a round while i < l - 4
RECURSIVE djbLoop(_, _, _, _)
djbLoop(d, i, l, bs) ==
    IF i < l - 4
    THEN djbLoop(mix(mix(mix(mix(d, bs[i + 1]), bs[i + 2]), bs[i + 3]), bs[i + 4]),
                 i + 4, l, bs)
    ELSE [d |-> d, i |-> i]

djb33(seed, k) ==
    LET bs == KeyBytes[k]
        l  == Len(bs)
        d0 == add32(add32(seed, 5381), l)
        r  == IF l >= 4 THEN djbLoop(d0, 0, l, bs) ELSE [d |-> d0, i |-> 0]
        i  == r.i
        d1 == CASE l - i = 2 -> mix(r.d, bs[i + 1])
                [] l - i = 3 -> mix(mix(r.d, bs[i + 1]), bs[i + 2])
                [] l - i = 4 -> mix(mix(mix(r.d, bs[i + 1]), bs[i + 2]), bs[i + 3])
                [] OTHER     -> r.d
    IN  <<d1[1], Xor(d1[2], d1[1])>>

\* djb33 of every seed and key of the model, computed once
Hash == [seed \in HashSeeds |-> [k \in DOMAIN KeyBytes |-> djb33(seed, k)]]

\* uint32 % m for a small m
ModU32(d, m) == ((d[1] % m) * (65536 % m) + d[2]) % m

\* bucket that sends every key to the first shard
bucketFirst(sc, k) == 1

\* shardedCache.bucket: the position in cs (from 1) of the table of k
bucket(sc, k) == ModU32(Hash[sc.seed][k], sc.m) + 1

newShardedCache(n, de, seed) ==
    [seed |-> seed, m |-> n,
     cs |-> [i \in 1..n |-> [defaultExpiration |-> de, items |-> <<>>,
                             indices |-> EmptyMap]]]

\* NewSharded(defaultExpiration, cleanupInterval, shards)
NewSharded(de, n, seed) == newShardedCache(n, newCache(de), seed)

storeIdle == <<defaultExpiration, items, indices, onEvicted, h, conc, jan>>

InitSharded ==
    /\ now = 1
    /\ defaultExpiration = newCache(0)
    /\ items = <<>>
    /\ indices = EmptyMap
    /\ onEvicted = "nil"
    /\ last = Res("New")
    /\ h = NoHeap
    /\ conc = NoThreads
    /\ jan = NoJanitor
    /\ sh \in {NewSharded(0, n, seed) : n \in ShardCounts, seed \in Seeds}

ShardedSet(k, x, d) ==
    LET b == bucket(sh, k)
        c == sh.cs[b]
        r == set(c.items, c.indices, c.defaultExpiration, now, k, x, d)
    IN  /\ sh' = [sh EXCEPT !.cs[b].items = r.items, !.cs[b].indices = r.indices]
        /\ last' = [Res("Sharded.Set") EXCEPT !.k = k, !.x = x, !.d = d]
        /\ UNCHANGED <<now, storeIdle>>

ShardedAdd(k, x, d) ==
    LET b == bucket(sh, k)
        c == sh.cs[b]
        g == get(c.items, c.indices, now, k)
        r == set(c.items, c.indices, c.defaultExpiration, now, k, x, d)
    IN  /\ IF g.ok
           THEN /\ UNCHANGED sh
                /\ last' = [Res("Sharded.Add") EXCEPT !.k = k, !.x = x, !.d = d,
                                                      !.err = TRUE]
           ELSE /\ sh' = [sh EXCEPT !.cs[b].items = r.items,
                                    !.cs[b].indices = r.indices]
                /\ last' = [Res("Sharded.Add") EXCEPT !.k = k, !.x = x, !.d = d]
        /\ UNCHANGED <<now, storeIdle>>

ShardedGet(k) ==
    LET c == sh.cs[bucket(sh, k)]
        g == get(c.items, c.indices, now, k)
    IN  /\ last' = [Res("Sharded.Get") EXCEPT !.k = k, !.v = g.v, !.ok = g.ok]
        /\ UNCHANGED <<now, sh, storeIdle>>

ShardedDelete(k) ==
    LET b == bucket(sh, k)
        c == sh.cs[b]
        r == delete(c.items, c.indices, "nil", k)
    IN  /\ sh' = [sh EXCEPT !.cs[b].items = SubSeq(r.arr, 1, r.len),
                            !.cs[b].indices = r.indices]
        /\ last' = [Res("Sharded.Delete") EXCEPT !.k = k]
        /\ UNCHANGED <<now, storeIdle>>

\* DeleteExpired: the sweep of every table in turn.
ShardedDeleteExpired ==
    /\ sh' = [sh EXCEPT !.cs = [i \in DOMAIN sh.cs |->
                LET c == sh.cs[i]
                    r == sweep(1, Len(c.items), c.items, c.indices, Len(c.items),
                               "nil", now, <<>>)
                IN  [c EXCEPT !.items = r.items, !.indices = r.indices]]]
    /\ last' = Res("Sharded.DeleteExpired")
    /\ UNCHANGED <<now, storeIdle>>

\* Keys: the Keys of every table, appended in the order of cs.
RECURSIVE shardedKeys(_, _, _)
shardedKeys(sc, t, i) ==
    IF i > Len(sc.cs) THEN <<>>
    ELSE keys(sc.cs[i].items, t, 1) \o shardedKeys(sc, t, i + 1)

ShardedKeys ==
    /\ last' = [Res("Sharded.Keys") EXCEPT !.out = shardedKeys(sh, now, 1)]
    /\ UNCHANGED <<now, sh, storeIdle>>

ShardedPurge ==
    /\ sh' = [sh EXCEPT !.cs = [i \in DOMAIN sh.cs |->
                [sh.cs[i] EXCEPT !.items = <<>>, !.indices = EmptyMap]]]
    /\ last' = Res("Sharded.Purge")
    /\ UNCHANGED <<now, storeIdle>>

NextSharded ==
    \/ Tick
    \/ \E k \in ShardKeys, x \in Values, d \in ShardTTLs : ShardedSet(k, x, d)
    \/ \E k \in ShardKeys, x \in Values, d \in ShardTTLs : ShardedAdd(k, x, d)
    \/ \E k \in ShardKeys : ShardedGet(k)
    \/ \E k \in ShardKeys : ShardedDelete(k)
    \/ ShardedDeleteExpired
    \/ ShardedKeys
    \/ ShardedPurge

SpecSharded == InitSharded /\ [][NextSharded]_vars

\* The position in cs (from 1) of shard djb33(seed, k) mod N of store s.
C12_Shard(s, k) == ModU32(Hash[s.seed][k], s.m) + 1

\* In store s every shard index lies in [0, N), a key is indexed and stored
\* in no table but its shard's, and a Keys call with result l listed no key
\* twice.
C12_Placement(s, l) ==
    /\ \A k \in ShardKeys : ModU32(Hash[s.seed][k], s.m) \in 0..(s.m - 1)
    /\ \A i \in 1..Len(s.cs) :
          /\ \A k \in DOMAIN s.cs[i].indices : i = C12_Shard(s, k)
          /\ \A k \in ShardKeys :
                (\E j \in 1..Len(s.cs[i].items) : s.cs[i].items[j].key = k)
                    => i = C12_Shard(s, k)
    /\ \A k \in ShardKeys :
          Cardinality({<<i, j>> \in (1..Len(s.cs)) \X (1..Cardinality(ShardKeys)) :
                          j <= Len(s.cs[i].items) /\ s.cs[i].items[j].key = k}) <= 1
    /\ l.op = "Sharded.Keys"
          => \A i, j \in 1..Len(l.out) : l.out[i] = l.out[j] => i = j

\* C12: for N >= 1 shards, every Set/Add/Get/Delete of key k works on the
\* one table at index djb33(seed, k) mod N and on no other; the index lies
\* in [0, N) and seed and N never change, so it is the same for every call;
\* a key is stored in at most one table; a Get right after a Set of the
\* same key returns what was set; Keys lists no key twice.
C12_ShardRouting ==
    [][/\ sh'.seed = sh.seed /\ sh'.m = sh.m /\ Len(sh'.cs) = sh.m /\ sh.m >= 1
       /\ C12_Placement(sh', last')
       /\ last'.op \in {"Sharded.Set", "Sharded.Add", "Sharded.Get", "Sharded.Delete"}
            => \A k \in ShardKeys, b \in 1..sh.m :
               (k = last'.k /\ b = C12_Shard(sh, k)) =>
               LET c == sh.cs[b]
                   g == get(sh'.cs[b].items, sh'.cs[b].indices, now, k)
               IN  /\ \A i \in 1..Len(sh.cs) : i # b => sh'.cs[i] = sh.cs[i]
                   /\ last'.op = "Sharded.Set" => g = [v |-> last'.x, ok |-> TRUE]
                   /\ (last'.op = "Sharded.Add" /\ ~last'.err)
                         => g = [v |-> last'.x, ok |-> TRUE]
                   /\ (last'.op = "Sharded.Add" /\ last'.err)
                         => get(c.items, c.indices, now, k).ok /\ sh' = sh
                   /\ last'.op = "Sharded.Get"
                         => /\ sh' = sh
                            /\ [v |-> last'.v, ok |-> last'.ok]
                                  = get(c.items, c.indices, now, k)
                   /\ last'.op = "Sharded.Delete"
                         => k \notin DOMAIN sh'.cs[b].indices /\ ~g.ok
       /\ (last.op = "Sharded.Set" /\ last'.op = "Sharded.Get" /\ last'.k = last.k)
            => (last'.ok /\ last'.v = last.x)]_vars

\* Two keys stored in two different tables, and a Get that found one.
C12_Witness ==
    /\ last.op = "Sharded.Get"
    /\ last.ok
    /\ sh.m = 3
    /\ \E i, j \in 1..Len(sh.cs) :
          i # j /\ Len(sh.cs[i].items) = 1 /\ Len(sh.cs[j].items) = 1

-----------------------------------------------------------------------------
\* The untyped table under concurrent callers, src/ttl.go.  Three goroutines:
\* a sweeper that runs DeleteExpired statement by statement, a reader that
\* runs Get, Keys or Count statement by statement, and writers whose calls
\* (AddTTL, Delete, OnEvicted, Purge) run whole under c.Lock().  conc.readers
\* is the set of goroutines that hold c.RLock(); c.Lock() is granted when
\* nobody holds the mutex, c.RLock() when no writer does, and a writer holds
\* it for no longer than its one step.  The sweeper's locals are t (now), n0
\* and arr (the slice the range statement fixed), i (the loop position), v
\* (the loop variable), ev (what delete returned) and ks (keys and values
\* collected for the callbacks); the reader's are rop, rk and ridx.

ReadOps == {"UGet", "UKeys", "UCount"}

ThreadsTTL ==
    [readers |-> {}, sweeper |-> "idle", reader |-> "idle",
     t |-> 0, n0 |-> 0, arr |-> <<>>, i |-> 0, v |-> <<>>, ev |-> FALSE, ks |-> <<>>,
     rop |-> "-", rk |-> "-", ridx |-> 0]

InitTTLConc ==
    /\ now = 1
    /\ defaultExpiration = newCache(0)
    /\ items = <<>>
    /\ indices = EmptyMap
    /\ onEvicted = "nil"
    /\ last = Res("New")
    /\ sh = NoShards
    /\ h = NoHeap
    /\ jan = NoJanitor
    /\ conc = ThreadsTTL

tableFixed == <<now, defaultExpiration, onEvicted, sh, h, jan>>

\* DeleteExpired, lines 180-182: read the clock, c.RLock(), start the range.
SweepBegin ==
    /\ conc.sweeper = "idle"
    /\ conc' = [conc EXCEPT !.readers = @ \cup {"sweeper"}, !.sweeper = "loop",
                            !.t = now, !.n0 = Len(items), !.arr = items, !.i = 1,
                            !.ks = <<>>]
    /\ UNCHANGED <<items, indices, last, tableFixed>>

\* One round of the loop, lines 182-185, up to delete's line 165: read
\* arr[i]; if it is expired and indexed, swap it with the last entry,
\* re-index the entry moved and erase the key.  The slice keeps its length
\* until line 168 or 171.
SweepVisit ==
    /\ conc.sweeper = "loop"
    /\ conc.i <= conc.n0
    /\ LET v == conc.arr[conc.i]
           r == delete(conc.arr, indices, onEvicted, v.key)
       IN  IF v.Expiration > 0 /\ conc.t > v.Expiration /\ v.key \in DOMAIN indices
           THEN /\ indices' = r.indices
                /\ items' = SubSeq(r.arr, 1, Len(items))
                /\ conc' = [conc EXCEPT !.sweeper = "truncate", !.arr = r.arr,
                                        !.v = v, !.ev = r.ok]
           ELSE /\ conc' = [conc EXCEPT !.i = @ + 1]
                /\ UNCHANGED <<items, indices>>
    /\ UNCHANGED <<last, tableFixed>>

\* delete's lines 166-172 and DeleteExpired's 186-189: truncate the slice,
\* note the key and value when delete reported an eviction.
SweepTruncate ==
    /\ conc.sweeper = "truncate"
    /\ items' = SubSeq(conc.arr, 1, Cardinality(DOMAIN indices))
    /\ conc' = [conc EXCEPT !.sweeper = "loop", !.i = @ + 1, !.v = <<>>, !.ev = FALSE,
                   !.ks = IF conc.ev THEN Append(@, <<conc.v.key, conc.v.value>>) ELSE @]
    /\ UNCHANGED <<indices, last, tableFixed>>

\* Line 192: the loop is over, c.RUnlock().
SweepUnlock ==
    /\ conc.sweeper = "loop"
    /\ conc.i > conc.n0
    /\ conc' = [conc EXCEPT !.readers = @ \ {"sweeper"}, !.sweeper = "callbacks",
                            !.t = 0, !.n0 = 0, !.arr = <<>>, !.i = 0]
    /\ UNCHANGED <<items, indices, last, tableFixed>>

\* Lines 193-195: call c.onEvicted, as it is now, for every key collected.
SweepCallbacks ==
    /\ conc.sweeper = "callbacks"
    /\ last' = [Res("UDeleteExpired") EXCEPT
                   !.out = IF onEvicted = "nil" THEN <<>> ELSE conc.ks,
                   !.panic = (onEvicted = "nil" /\ conc.ks # <<>>)]
    /\ conc' = [conc EXCEPT !.sweeper = "idle", !.ks = <<>>]
    /\ UNCHANGED <<items, indices, tableFixed>>

\* Get, Keys, Count: c.RLock()
ReadLock(op, k) ==
    /\ conc.reader = "idle"
    /\ conc' = [conc EXCEPT !.readers = @ \cup {"reader"}, !.reader = "locked",
                            !.rop = op, !.rk = IF op = "UGet" THEN k ELSE "-"]
    /\ UNCHANGED <<items, indices, last, tableFixed>>

\* Get, lines 100-104: idx, found := c.indices[k]
GetLookup ==
    /\ conc.reader = "locked"
    /\ conc.rop = "UGet"
    /\ IF conc.rk \in DOMAIN indices
       THEN /\ conc' = [conc EXCEPT !.reader = "found", !.ridx = indices[conc.rk]]
            /\ UNCHANGED last
       ELSE /\ conc' = [conc EXCEPT !.readers = @ \ {"reader"}, !.reader = "idle",
                                    !.rop = "-", !.rk = "-"]
            /\ last' = [Res("UGet") EXCEPT !.k = conc.rk]
    /\ UNCHANGED <<items, indices, tableFixed>>

\* Get, lines 106-114: item := &c.items[idx], a panic when idx is outside
\* the slice (the read lock is then never released); else the expiry test.
GetRead ==
    /\ conc.reader = "found"
    /\ IF conc.ridx > Len(items)
       THEN /\ conc' = [conc EXCEPT !.reader = "panicked"]
            /\ last' = [Res("UGet") EXCEPT !.k = conc.rk, !.panic = TRUE]
       ELSE LET item == items[conc.ridx]
                dead == item.Expiration > 0 /\ now > item.Expiration
            IN  /\ conc' = [conc EXCEPT !.readers = @ \ {"reader"}, !.reader = "idle",
                                        !.rop = "-", !.rk = "-", !.ridx = 0]
                /\ last' = [Res("UGet") EXCEPT !.k = conc.rk,
                               !.v = IF dead THEN ZeroV ELSE item.value,
                               !.ok = ~dead,
                               !.out = <<item.key>>]
    /\ UNCHANGED <<items, indices, tableFixed>>

\* Keys, lines 212-223, and Count, lines 230-232, and their RUnlock
KeysCountRead ==
    /\ conc.reader = "locked"
    /\ conc.rop \in {"UKeys", "UCount"}
    /\ last' = IF conc.rop = "UKeys"
               THEN [Res("UKeys") EXCEPT !.out = keysTTL(items, now, 1)]
               ELSE [Res("UCount") EXCEPT !.n = Len(items)]
    /\ conc' = [conc EXCEPT !.readers = @ \ {"reader"}, !.reader = "idle", !.rop = "-"]
    /\ UNCHANGED <<items, indices, tableFixed>>

\* The calls that take c.Lock()
Writer ==
    /\ conc.readers = {}
    /\ \/ \E k \in Keys, x \in Values, d \in TTLs : UAddTTL(k, x, d)
       \/ \E k \in Keys : UDelete(k)
       \/ \E f \in Callbacks : UOnEvicted(f)
       \/ UPurge

NextTTLConc ==
    \/ Tick
    \/ SweepBegin
    \/ SweepVisit
    \/ SweepTruncate
    \/ SweepUnlock
    \/ SweepCallbacks
    \/ \E op \in ReadOps, k \in Keys : ReadLock(op, k)
    \/ GetLookup
    \/ GetRead
    \/ KeysCountRead
    \/ Writer

SpecTTLConc == InitTTLConc /\ [][NextTTLConc]_vars

\* C14: while DeleteExpired is inside a swap-delete (it has swapped and
\* re-indexed, and not yet truncated the slice), no Get, Keys or Count holds
\* the read lock.
C14_NoReaderDuringMutation ==
    conc.sweeper = "truncate" => "reader" \notin conc.readers

-----------------------------------------------------------------------------
\* The generic table under concurrent callers, src/cache.go.  Goroutines: a
\* renewer running GetAndRenewal, a getter running Get, a deleter running
\* Delete or DeleteExpired (the part under c.Lock() in one step, the
\* callbacks after c.Unlock() in another), and writers whose calls (Set,
\* OnEvicted) run whole under c.Lock().  conc.readers is the set of
\* goroutines that hold c.RLock(); c.Lock() is granted when nobody holds the
\* mutex.  Locals: nk and nidx of the renewer, gk and gidx of the getter,
\* dop, evs (the evictions to report) and f0 (c.onEvicted when the deleter
\* unlocked) of the deleter.

ConcCallbacks == {"nil", "f", "g"}
ConcValues == {1}

ThreadsGen ==
    [readers |-> {}, renewer |-> "idle", getter |-> "idle", deleter |-> "idle",
     nk |-> "-", nidx |-> 0, gk |-> "-", gidx |-> 0,
     dop |-> "-", evs |-> <<>>, f0 |-> "-"]

InitConc ==
    /\ now = 1
    /\ defaultExpiration = newCache(3)
    /\ items = <<>>
    /\ indices = EmptyMap
    /\ onEvicted = "nil"
    /\ last = Res("New")
    /\ sh = NoShards
    /\ h = NoHeap
    /\ jan = NoJanitor
    /\ conc = ThreadsGen

cacheFixed == <<now, defaultExpiration, onEvicted, sh, h, jan>>

\* GetAndRenewal, lines 244-251: c.RLock(), the lookup, the entry's Lock()
RenewBegin(k) ==
    /\ conc.renewer = "idle"
    /\ IF k \in DOMAIN indices
       THEN /\ conc' = [conc EXCEPT !.readers = @ \cup {"renewer"}, !.renewer = "write",
                                    !.nk = k, !.nidx = indices[k]]
            /\ UNCHANGED last
       ELSE /\ last' = [Res("GetAndRenewal") EXCEPT !.k = k, !.was = "absent"]
            /\ UNCHANGED conc
    /\ UNCHANGED <<items, indices, cacheFixed>>

\* The write GetAndRenewal is about to make, lines 252-256
RenewWrites ==
    /\ conc.renewer = "write"
    /\ items[conc.nidx].Expiration > 0
    /\ items[conc.nidx].Expiration - now <= GoDiv(defaultExpiration, 3)

\* GetAndRenewal, lines 252-261
RenewWrite ==
    /\ conc.renewer = "write"
    /\ LET idx == conc.nidx
           e   == items[idx].Expiration
       IN  /\ items' = [items EXCEPT ![idx].Expiration =
                          IF RenewWrites THEN e + GoDiv(defaultExpiration, 3) ELSE e]
           /\ last' = [Res("GetAndRenewal") EXCEPT
                          !.k = conc.nk, !.v = items[idx].value, !.ok = TRUE,
                          !.was = Was(items, indices, now, conc.nk), !.e0 = e]
    /\ conc' = [conc EXCEPT !.readers = @ \ {"renewer"}, !.renewer = "idle",
                            !.nk = "-", !.nidx = 0]
    /\ UNCHANGED <<indices, cacheFixed>>

\* Get, lines 224-229: c.RLock() and the lookup
GetBegin(k) ==
    /\ conc.getter = "idle"
    /\ IF k \in DOMAIN indices
       THEN /\ conc' = [conc EXCEPT !.readers = @ \cup {"getter"}, !.getter = "read",
                                    !.gk = k, !.gidx = indices[k]]
            /\ UNCHANGED last
       ELSE /\ last' = [Res("Get") EXCEPT !.k = k]
            /\ UNCHANGED conc
    /\ UNCHANGED <<items, indices, cacheFixed>>

\* Get, lines 231-239: the reads of items[idx].Expiration, the value
GetEnd ==
    /\ conc.getter = "read"
    /\ LET item == items[conc.gidx]
           dead == item.Expiration > 0 /\ now > item.Expiration
       IN  last' = [Res("Get") EXCEPT !.k = conc.gk, !.ok = ~dead,
                       !.v = IF dead THEN ZeroV ELSE item.value]
    /\ conc' = [conc EXCEPT !.readers = @ \ {"getter"}, !.getter = "idle",
                            !.gk = "-", !.gidx = 0]
    /\ UNCHANGED <<items, indices, cacheFixed>>

\* Delete, lines 317-319: c.Lock(), delete, c.Unlock()
DeleteLocked(k) ==
    /\ conc.deleter = "idle"
    /\ conc.readers = {}
    /\ LET r == delete(items, indices, onEvicted, k)
       IN  /\ items' = SubSeq(r.arr, 1, r.len)
           /\ indices' = r.indices
           /\ conc' = [conc EXCEPT !.deleter = "callbacks", !.dop = "Delete",
                          !.evs = IF r.ok THEN <<<<k, r.v>>>> ELSE <<>>,
                          !.f0 = onEvicted]
    /\ UNCHANGED <<last, cacheFixed>>

\* DeleteExpired, lines 347-359: c.Lock(), the loop, c.Unlock()
DeleteExpiredLocked ==
    /\ conc.deleter = "idle"
    /\ conc.readers = {}
    /\ LET r == sweep(1, Len(items), items, indices, Len(items), onEvicted, now, <<>>)
       IN  /\ items' = r.items
           /\ indices' = r.indices
           /\ conc' = [conc EXCEPT !.deleter = "callbacks", !.dop = "DeleteExpired",
                                   !.evs = r.out, !.f0 = onEvicted]
    /\ UNCHANGED <<last, cacheFixed>>

\* Delete, lines 320-322, and DeleteExpired, lines 360-362: call c.onEvicted,
\* as it is now, for what was evicted; calling a nil func panics.
DeleteCallbacks ==
    /\ conc.deleter = "callbacks"
    /\ last' = [Res(conc.dop) EXCEPT
                   !.n = Len(conc.evs),
                   !.f0 = conc.f0,
                   !.f = IF conc.evs = <<>> THEN "-" ELSE onEvicted,
                   !.out = IF onEvicted = "nil" THEN <<>> ELSE conc.evs,
                   !.panic = (onEvicted = "nil" /\ conc.evs # <<>>)]
    /\ conc' = [conc EXCEPT !.deleter = "idle", !.dop = "-", !.evs = <<>>, !.f0 = "-"]
    /\ UNCHANGED <<items, indices, cacheFixed>>

\* The calls that run whole under c.Lock()
Locked ==
    /\ conc.readers = {}
    /\ \/ \E k \in Keys, x \in ConcValues, d \in TTLs : Set(k, x, d)
       \/ \E f \in ConcCallbacks : OnEvicted(f)

NextConc ==
    \/ Tick
    \/ \E k \in Keys : RenewBegin(k)
    \/ RenewWrite
    \/ \E k \in Keys : GetBegin(k)
    \/ GetEnd
    \/ \E k \in Keys : DeleteLocked(k)
    \/ DeleteExpiredLocked
    \/ DeleteCallbacks
    \/ Locked

SpecConc == InitConc /\ [][NextConc]_vars

\* C19: the write of items[idx].Expiration that GetAndRenewal makes under
\* the read lock and the entry's lock is never pending at the same time as
\* a read of the same field by a Get that holds the read lock.
C19_NoExpirationRace ==
    ~(RenewWrites /\ conc.getter = "read" /\ conc.gidx = conc.nidx)

\* C20: a Delete or DeleteExpired that removed entries while a callback was
\* registered calls that callback for them, and never a nil one, whatever
\* OnEvicted calls ran between the removal and the calls.
C20_CallbackAtRemoval ==
    (last.op \in {"Delete", "DeleteExpired"} /\ last.n > 0)
        => (~last.panic /\ last.f = last.f0)

-----------------------------------------------------------------------------
\* The background sweep of the generic table, src/cache.go 422-458.  jan.pc
\* is where the goroutine of run is: "none" (cleanupInterval <= 0: it was
\* never started), "select" (at the select statement) or "done" (returned).
\* jan.tick: a tick is waiting in ticker.C; jan.stop: the channel c.stop.

Intervals == {0, 1}
JanitorTTLs == {NoExpiration, 1}

\* newCacheWithJanitor
newCacheWithJanitor(ci) ==
    [pc |-> IF ci > 0 THEN "select" ELSE "none", tick |-> FALSE, stop |-> "open"]

InitJanitor ==
    /\ now = 1
    /\ defaultExpiration = newCache(0)
    /\ items = <<>>
    /\ indices = EmptyMap
    /\ onEvicted = "nil"
    /\ last = Res("New")
    /\ sh = NoShards
    /\ h = NoHeap
    /\ conc = NoThreads
    /\ jan \in {newCacheWithJanitor(ci) : ci \in Intervals}

cacheIdle == <<now, defaultExpiration, items, indices, onEvicted, last, sh, h, conc>>

\* The ticker delivers a tick; ticker.C holds at most one.
TickerFire ==
    /\ jan.pc = "select"
    /\ ~jan.tick
    /\ jan' = [jan EXCEPT !.tick = TRUE]
    /\ UNCHANGED cacheIdle

\* The finalizer of the Cache: close(C.cache.stop)
CloseStop ==
    /\ jan.pc # "none"
    /\ jan.stop = "open"
    /\ jan' = [jan EXCEPT !.stop = "closed"]
    /\ UNCHANGED cacheIdle

\* run, case <-ticker.C: c.DeleteExpired().  select takes any ready case.
JanitorSweep ==
    /\ jan.pc = "select"
    /\ jan.tick
    /\ jan' = [jan EXCEPT !.tick = FALSE]
    /\ LET r == sweep(1, Len(items), items, indices, Len(items), onEvicted, now, <<>>)
       IN  /\ items' = r.items
           /\ indices' = r.indices
           /\ last' = [Res("DeleteExpired") EXCEPT !.out = r.out, !.len0 = Len(items)]
    /\ UNCHANGED <<now, defaultExpiration, onEvicted, sh, h, conc>>

\* run that does not return on stop.
JanitorIgnoresStop ==
    /\ jan.pc = "select"
    /\ jan.stop = "closed"
    /\ jan.tick
    /\ jan' = [jan EXCEPT !.tick = FALSE]
    /\ UNCHANGED cacheIdle

\* run, case <-c.stop: ticker.Stop(); return
JanitorStop ==
    /\ jan.pc = "select"
    /\ jan.stop = "closed"
    /\ jan' = [jan EXCEPT !.pc = "done", !.tick = FALSE]
    /\ UNCHANGED cacheIdle

NextJanitor ==
    \/ Tick
    \/ TickerFire
    \/ CloseStop
    \/ JanitorSweep
    \/ JanitorStop
    \/ \E k \in Keys, x \in ConcValues, d \in JanitorTTLs : Set(k, x, d)
    \/ \E k \in Keys : Get(k)
    \/ \E k \in Keys : Delete(k)

\* select takes a ready case at random, so the stop case, ready from the
\* close on, is taken sooner or later.
SpecJanitor == InitJanitor /\ [][NextJanitor]_vars /\ WF_vars(JanitorStop)

\* A step of the sweep task that starts DeleteExpired.
C15_SweepStarts == jan.tick /\ ~jan'.tick /\ jan'.pc = "select"

\* C15: once stop is closed the sweep task starts no DeleteExpired, it
\* terminates, and Set, Get and Delete keep working, expiry evaluated at the
\* read.
C15_NoSweepOnceStopped ==
    /\ [][jan.stop = "closed" => ~C15_SweepStarts]_vars
    /\ (jan.stop = "closed") ~> (jan.pc = "done")
    /\ [][jan.stop = "closed" =>
            /\ last'.op = "Set"
                 => get(items', indices', now, last'.k) = [v |-> last'.x, ok |-> TRUE]
            /\ last'.op = "Get"
                 => [v |-> last'.v, ok |-> last'.ok] = get(items, indices, now, last'.k)
            /\ last'.op = "Delete" => last'.k \notin DOMAIN indices']_vars

\* C15 as the code has it: once stop is closed the sweep task terminates,
\* having started DeleteExpired only for ticks it took before it took stop;
\* once it has terminated it stays so and no DeleteExpired starts; Set, Get
\* and Delete keep working, expiry evaluated at the read.
C15_Teardown ==
    /\ (jan.stop = "closed") ~> (jan.pc = "done")
    /\ [][jan.pc = "done" => (jan'.pc = "done" /\ ~jan'.tick /\ last'.op # "DeleteExpired")]_vars
    /\ [][jan.stop = "closed" =>
            /\ jan'.stop = "closed"
            /\ last'.op = "Set"
                 => get(items', indices', now, last'.k) = [v |-> last'.x, ok |-> TRUE]
            /\ last'.op = "Get"
                 => [v |-> last'.v, ok |-> last'.ok] = get(items, indices, now, last'.k)
            /\ last'.op = "Delete" => last'.k \notin DOMAIN indices']_vars

\* The task has returned, an expired entry is still stored, and a Get of it
\* has reported not-found.
C15_Witness ==
    /\ jan.pc = "done"
    /\ last.op = "Get"
    /\ ~last.ok
    /\ last.k \in DOMAIN indices
    /\ Expired(EntryOf(last.k), now)

-----------------------------------------------------------------------------
\* The generic table with three keys and the operations that matter to a
\* sweep: enough entries for one DeleteExpired call to remove several.

SweepKeys == {"a", "b", "c"}
SweepTTLs == {NoExpiration, 1}

InitSweep ==
    /\ now = 1
    /\ defaultExpiration = newCache(0)
    /\ items = <<>>
    /\ indices = EmptyMap
    /\ onEvicted = "nil"
    /\ last = Res("New")
    /\ sh = NoShards
    /\ h = NoHeap
    /\ conc = NoThreads
    /\ jan = NoJanitor

NextSweep ==
    \/ Tick
    \/ \E k \in SweepKeys, x \in Values, d \in SweepTTLs : Set(k, x, d)
    \/ \E k \in SweepKeys : Delete(k)
    \/ DeleteExpired
    \/ \E f \in Callbacks : OnEvicted(f)

SpecSweep == InitSweep /\ [][NextSweep]_vars

\* The entries the loop of DeleteExpired takes out of the index, in the
\* order it takes them out: at each position visited, the keys that delete
\* erased from the index, each with the value the index led to.
RECURSIVE C21_Removals(_, _, _, _, _, _)
C21_Removals(i, n0, arr, ixs, cb, t) ==
    IF i > n0
    THEN <<>>
    ELSE IF arr[i].Expiration > 0 /\ t > arr[i].Expiration
         THEN LET r    == delete(arr, ixs, cb, arr[i].key)
                  gone == (DOMAIN ixs) \ (DOMAIN r.indices)
                  one  == IF gone = {} THEN <<>>
                          ELSE LET k == CHOOSE k \in gone : TRUE
                               IN  <<<<k, arr[ixs[k]].value>>>>
              IN  one \o C21_Removals(i + 1, n0, r.arr, r.indices, cb, t)
         ELSE C21_Removals(i + 1, n0, arr, ixs, cb, t)

\* C21: a DeleteExpired call with a callback registered calls it once for
\* each entry the call removed, with the key and value of that entry, in
\* the order of removal, and for no other entry.
C21_CallbackPerRemoval ==
    [][(last'.op = "DeleteExpired" /\ onEvicted # "nil")
          => /\ last'.out = C21_Removals(1, Len(items), items, indices, onEvicted, now)
             /\ {last'.out[j][1] : j \in 1..Len(last'.out)}
                   = (DOMAIN indices) \ (DOMAIN indices')
             /\ Len(last'.out) = Cardinality((DOMAIN indices) \ (DOMAIN indices'))
             /\ \A j \in 1..Len(last'.out) :
                   last'.out[j][2] = EntryOf(last'.out[j][1]).value]_vars

\* One call removed two entries and called back for both.
C21_Witness ==
    /\ last.op = "DeleteExpired"
    /\ onEvicted # "nil"
    /\ Len(last.out) = 2
    /\ last.len0 = 3

-----------------------------------------------------------------------------
\* The generic table with the mutex spelled out, src/cache.go: conc.writer
\* is the goroutine that holds c.Lock() ("none": nobody), conc.readers the
\* goroutines that hold c.RLock().  Each goroutine runs a call in three
\* steps: it asks for the call's lock, gets it (Acquire), then does the call
\* and unlocks (Perform).  A Delete or DeleteExpired leaves its evictions in
\* evs; for each of them the callback is then called (CallbackCalls), and
\* the callback, code of the caller, makes one call of Get, Set, Delete or
\* Len on the same table, in the same three steps (cb: the call in progress
\* is a callback's).  The janitor goroutine is run's loop: a DeleteExpired at
\* every tick.

Goroutines == {"user", "other", "janitor"}
WriteOps == {"Set", "Delete", "DeleteExpired", "OnEvicted"}
CallbackOps == {"Get", "Set", "Delete", "Len"}
LockTTLs == {1}
LockKeys == {"a"}

Idle == [pc |-> "idle", op |-> "-", k |-> "-", d |-> 0, evs |-> <<>>, cb |-> FALSE]

TopOps(t) ==
    CASE t = "user"    -> {"Delete", "DeleteExpired"}
      [] t = "other"   -> {"Set", "OnEvicted"}
      [] t = "janitor" -> {"DeleteExpired"}

InitLocks ==
    /\ now = 1
    /\ defaultExpiration = newCache(0)
    /\ items = <<>>
    /\ indices = EmptyMap
    /\ onEvicted = "nil"
    /\ last = Res("New")
    /\ sh = NoShards
    /\ h = NoHeap
    /\ jan = NoJanitor
    /\ conc = [writer |-> "none", readers |-> {}, th |-> [t \in Goroutines |-> Idle]]

locksFixed == <<now, defaultExpiration, sh, h, jan>>

\* A goroutine starts a call.
Call(t, op, k, d) ==
    /\ conc.th[t].pc = "idle"
    /\ op \in TopOps(t)
    /\ conc' = [conc EXCEPT !.th[t] = [Idle EXCEPT !.pc = "acquire", !.op = op,
                   !.k = IF op \in {"Set", "Get", "Delete"} THEN k ELSE "-",
                   !.d = IF op = "Set" THEN d ELSE 0]]
    /\ UNCHANGED <<items, indices, onEvicted, last, locksFixed>>

\* c.Lock() for the calls that write, c.RLock() for Get and Len
Acquire(t) ==
    /\ conc.th[t].pc = "acquire"
    /\ conc.writer = "none"
    /\ IF conc.th[t].op \in WriteOps
       THEN /\ conc.readers = {}
            /\ conc' = [conc EXCEPT !.writer = t, !.th[t].pc = "held"]
       ELSE conc' = [conc EXCEPT !.readers = @ \cup {t}, !.th[t].pc = "held"]
    /\ UNCHANGED <<items, indices, onEvicted, last, locksFixed>>

\* What a call does to the table under its lock, and the evictions it is
\* to report.
effect(op, k, d) ==
    CASE op = "Set" ->
            LET r == set(items, indices, defaultExpiration, now, k, 1, d)
            IN  [items |-> r.items, indices |-> r.indices, cb |-> onEvicted, evs |-> <<>>]
      [] op = "Delete" ->
            LET r == delete(items, indices, onEvicted, k)
            IN  [items |-> SubSeq(r.arr, 1, r.len), indices |-> r.indices,
                 cb |-> onEvicted, evs |-> IF r.ok THEN <<<<k, r.v>>>> ELSE <<>>]
      [] op = "DeleteExpired" ->
            LET r == sweep(1, Len(items), items, indices, Len(items), onEvicted, now, <<>>)
            IN  [items |-> r.items, indices |-> r.indices, cb |-> onEvicted, evs |-> r.out]
      [] op = "OnEvicted" ->
            [items |-> items, indices |-> indices, cb |-> "f", evs |-> <<>>]
      [] OTHER ->
            [items |-> items, indices |-> indices, cb |-> onEvicted, evs |-> <<>>]

\* Perform that returns to the caller with the mutex still held.
PerformKeepsLock(t) ==
    /\ conc.th[t].pc = "held"
    /\ LET c == conc.th[t]
           r == effect(c.op, c.k, c.d)
           evs == r.evs \o c.evs
       IN  /\ items' = r.items
           /\ indices' = r.indices
           /\ onEvicted' = r.cb
           /\ last' = [Res(c.op) EXCEPT !.k = c.k]
           /\ conc' = [conc EXCEPT
                          !.th[t] = IF evs = <<>> THEN Idle
                                    ELSE [Idle EXCEPT !.pc = "callback", !.evs = evs]]
    /\ UNCHANGED locksFixed

\* The call under its lock, then c.Unlock() or c.RUnlock(); the evictions
\* of a Delete or DeleteExpired are reported after that, before the ones
\* still waiting.
Perform(t) ==
    /\ conc.th[t].pc = "held"
    /\ LET c == conc.th[t]
           r == effect(c.op, c.k, c.d)
           evs == r.evs \o c.evs
       IN  /\ items' = r.items
           /\ indices' = r.indices
           /\ onEvicted' = r.cb
           /\ last' = [Res(c.op) EXCEPT !.k = c.k]
           /\ conc' = [conc EXCEPT
                          !.writer = IF @ = t THEN "none" ELSE @,
                          !.readers = @ \ {t},
                          !.th[t] = IF evs = <<>> THEN Idle
                                    ELSE [Idle EXCEPT !.pc = "callback", !.evs = evs]]
    /\ UNCHANGED locksFixed

\* c.onEvicted(k, v) for the next eviction: the callback makes a call on
\* the table.
CallbackCalls(t, op, k, d) ==
    /\ conc.th[t].pc = "callback"
    /\ op \in CallbackOps
    /\ conc' = [conc EXCEPT !.th[t] = [Idle EXCEPT !.pc = "acquire", !.op = op,
                   !.k = IF op = "Len" THEN "-" ELSE k,
                   !.d = IF op = "Set" THEN d ELSE 0,
                   !.evs = Tail(conc.th[t].evs), !.cb = TRUE]]
    /\ UNCHANGED <<items, indices, onEvicted, last, locksFixed>>

\* What a goroutine does once it is inside a call.
Continue(t) ==
    \/ Acquire(t)
    \/ Perform(t)
    \/ \E op \in CallbackOps, k \in LockKeys, d \in LockTTLs : CallbackCalls(t, op, k, d)

NextLocks ==
    \/ Tick
    \/ \E t \in Goroutines, op \in WriteOps \cup CallbackOps, k \in LockKeys, d \in LockTTLs :
          Call(t, op, k, d)
    \/ \E t \in Goroutines : Continue(t)

\* The goroutines run, and sync.RWMutex lets no waiter starve.
SpecLocks ==
    InitLocks /\ [][NextLocks]_vars /\ \A t \in Goroutines : SF_vars(Continue(t))

\* C22: a goroutine that is calling an eviction callback, or is inside the
\* call the callback makes and waiting for its lock, holds no lock of the
\* table; every call that waits for its lock, a callback's call included,
\* gets it, does its work and returns; and every eviction waiting to be
\* reported gets its callback called.
C22_CallbacksOutsideLock ==
    /\ [](\A t \in Goroutines :
             conc.th[t].pc \in {"idle", "callback", "acquire"}
                => (conc.writer # t /\ t \notin conc.readers))
    /\ \A t \in Goroutines :
          (conc.th[t].pc = "acquire") ~> (conc.th[t].pc \in {"idle", "callback"})
    /\ \A t \in Goroutines : (conc.th[t].pc = "callback") ~> (conc.th[t].pc = "acquire")

\* Inside a callback the user's goroutine holds the write lock for the
\* callback's Delete, and the janitor waits for the lock.
C22_Witness ==
    /\ conc.writer = "user"
    /\ conc.th["user"].op = "Delete"
    /\ conc.th["user"].cb
    /\ conc.th["janitor"].pc = "acquire"

-----------------------------------------------------------------------------
\* djb33 as a function, src/unnamed/part_000 34-63: calls of it on the seeds
\* and keys of the model.  last.out is <<seed, key hash>>.

InitHash ==
    /\ now = 1
    /\ defaultExpiration = newCache(0)
    /\ items = <<>>
    /\ indices = EmptyMap
    /\ onEvicted = "nil"
    /\ last = Res("New")
    /\ sh = NoShards
    /\ h = NoHeap
    /\ conc = NoThreads
    /\ jan = NoJanitor

HashCall(seed, k) ==
    /\ last' = [Res("djb33") EXCEPT !.k = k, !.out = <<seed, Hash[seed][k]>>]
    /\ UNCHANGED <<now, defaultExpiration, items, indices, onEvicted, others>>

NextHash == \E seed \in HashSeeds, k \in DOMAIN KeyBytes : HashCall(seed, k)

SpecHash == InitHash /\ [][NextHash]_vars

\* The rolling hash over the whole key: d = (d * 33) ^ byte for every byte
\* from position i on, in uint32 arithmetic.
RECURSIVE C23_Roll(_, _, _)
C23_Roll(d, bs, i) ==
    IF i > Len(bs) THEN d
    ELSE CHOOSE r \in {C23_Roll(e, bs, i + 1) : e \in {mix(d, bs[i])}} : TRUE

\* The reference hash: start at 5381 + seed + len(key), roll over all the
\* bytes, return d ^ (d >> 16).
C23_Reference ==
    [seed \in HashSeeds |-> [k \in DOMAIN KeyBytes |->
        LET bs == KeyBytes[k]
            d  == C23_Roll(add32(add32(seed, 5381), Len(bs)), bs, 1)
        IN  <<d[1], Xor(d[2], d[1])>>]]

\* Keys of the same length that differ in their last byte only.
C23_Twins(k) ==
    {j \in DOMAIN KeyBytes :
        /\ j # k
        /\ Len(KeyBytes[j]) = Len(KeyBytes[k])
        /\ SubSeq(KeyBytes[j], 1, Len(KeyBytes[j]) - 1)
              = SubSeq(KeyBytes[k], 1, Len(KeyBytes[k]) - 1)}

\* C23: djb33(seed, key) is the reference hash of the whole key, and keys
\* of equal length that differ in the last byte only do not get the same
\* hash.
C23_HashIsReference ==
    last.op = "djb33"
        => /\ last.out[2] = C23_Reference[last.out[1]][last.k]
           /\ \A j \in C23_Twins(last.k) : Hash[last.out[1]][j] # last.out[2]

-----------------------------------------------------------------------------
\* The periodic sweep of a store created with a cleanup interval: the single
\* table (src/cache.go 422-433) or the sharded store (src/unnamed/part_000
\* 142-155), whichever Init creates.  sh = NoShards is the single table.

SweeperShardCounts == {1, 2}
SweeperSeed == <<0, 0>>

InitSweeper ==
    /\ now = 1
    /\ defaultExpiration = newCache(0)
    /\ items = <<>>
    /\ indices = EmptyMap
    /\ onEvicted = "nil"
    /\ last = Res("New")
    /\ h = NoHeap
    /\ conc = NoThreads
    /\ jan \in {newCacheWithJanitor(ci) : ci \in Intervals}
    /\ sh \in {NoShards} \cup {NewSharded(0, n, SweeperSeed) : n \in SweeperShardCounts}

\* The number of entries stored in the tables of sc.
RECURSIVE shardedLen(_, _)
shardedLen(sc, i) ==
    IF i > Len(sc.cs) THEN 0 ELSE Len(sc.cs[i].items) + shardedLen(sc, i + 1)

\* shardedCache.run, case <-ticker.C: DeleteExpired of every table in turn.
ShardedJanitorSweep ==
    /\ jan.pc = "select"
    /\ jan.tick
    /\ jan' = [jan EXCEPT !.tick = FALSE]
    /\ sh' = [sh EXCEPT !.cs = [i \in DOMAIN sh.cs |->
                LET c == sh.cs[i]
                    r == sweep(1, Len(c.items), c.items, c.indices, Len(c.items),
                               "nil", now, <<>>)
                IN  [c EXCEPT !.items = r.items, !.indices = r.indices]]]
    /\ last' = [Res("Sharded.DeleteExpired") EXCEPT !.len0 = shardedLen(sh, 1)]
    /\ UNCHANGED <<now, defaultExpiration, items, indices, onEvicted, h, conc>>

\* The task of the store at hand takes the tick.
RunSweep ==
    \/ sh = NoShards /\ JanitorSweep
    \/ sh # NoShards /\ ShardedJanitorSweep

NextSweeper ==
    \/ Tick
    \/ TickerFire
    \/ CloseStop
    \/ JanitorStop
    \/ RunSweep
    \/ sh = NoShards /\ \E k \in Keys, x \in ConcValues, d \in JanitorTTLs : Set(k, x, d)
    \/ sh = NoShards /\ \E k \in Keys : Delete(k)
    \/ sh # NoShards /\ \E k \in ShardKeys, x \in ConcValues, d \in JanitorTTLs :
                            ShardedSet(k, x, d)
    \/ sh # NoShards /\ \E k \in ShardKeys : ShardedDelete(k)

\* The ticker keeps delivering ticks, and the task, blocked in select with a
\* tick waiting, takes it: DeleteExpired waits for a sync.RWMutex, which
\* does not starve a waiting locker.
SpecSweeper ==
    InitSweeper /\ [][NextSweeper]_vars /\ WF_vars(TickerFire) /\ WF_vars(RunSweep)

\* The table that holds k: the single table, or the shard of k.
C24_Table(k) ==
    IF sh = NoShards THEN [items |-> items, indices |-> indices]
    ELSE [items |-> sh.cs[bucket(sh, k)].items, indices |-> sh.cs[bucket(sh, k)].indices]

\* k is physically stored: indexed, or held by an entry of items.
C24_Stored(k) ==
    \/ k \in DOMAIN C24_Table(k).indices
    \/ \E i \in 1..Len(C24_Table(k).items) : C24_Table(k).items[i].key = k

\* The stored entry of k has expired.
C24_ExpiredStored(k) ==
    /\ k \in DOMAIN C24_Table(k).indices
    /\ Expired(C24_Table(k).items[C24_Table(k).indices[k]], now)

\* The number of entries of the store.
C24_Len == IF sh = NoShards THEN Len(items) ELSE shardedLen(sh, 1)

\* C24: while the sweep task runs, every entry that has expired is in the
\* end physically removed from items and indices of its table (the single
\* table or its shard), unless it is written again or the task is stopped.
C24_ExpiredEventuallyRemoved ==
    \A k \in Keys \cup ShardKeys :
        (jan.pc = "select" /\ jan.stop = "open" /\ C24_ExpiredStored(k))
            ~> \/ ~C24_Stored(k)
               \/ last.op \in {"Set", "Sharded.Set"} /\ last.k = k
               \/ jan.stop = "closed"

\* A pass of the task has removed an entry and left an expired one behind.
C24_Witness ==
    /\ jan.pc = "select"
    /\ jan.stop = "open"
    /\ last.op \in {"DeleteExpired", "Sharded.DeleteExpired"}
    /\ last.len0 > C24_Len
    /\ \E k \in Keys \cup ShardKeys : C24_ExpiredStored(k)

-----------------------------------------------------------------------------
\* The sweep of the heap cache, GCache.gc (src/cache.go 68-82), with the
\* operations that change the heap, over three keys.

HeapKeys == {"a", "b", "c"}
HeapValues == {1}

\* The loop of one tick: peek with Top, leave if there is nothing or the
\* entry peeked expires after the tick's time t, else Remove its key.  The
\* loop has no state but the heap, so an iteration whose Remove leaves the
\* heap as it was is followed by the same iteration for ever: ended is
\* FALSE then, k is the key it keeps removing, n the removals made.
RECURSIVE gcLoop(_, _, _)
gcLoop(hp, t, n) ==
    IF heapLen(hp) <= 0 \/ heapTop(hp).expired > t
    THEN [h |-> hp, ended |-> TRUE, n |-> n, k |-> "-"]
    ELSE IF heapRemove(hp, heapTop(hp).key) = hp
         THEN [h |-> hp, ended |-> FALSE, n |-> n, k |-> heapTop(hp).key]
         ELSE CHOOSE r \in {gcLoop(g, t, n + 1) : g \in {heapRemove(hp, heapTop(hp).key)}} : TRUE

\* gc, case now := <-ticker.C
gc ==
    LET r == gcLoop(h, now, 0)
    IN  /\ h' = r.h
        /\ last' = [Res("GCache.gc") EXCEPT !.ok = r.ended, !.n = r.n, !.k = r.k,
                                            !.len0 = Len(h.entries)]
        /\ UNCHANGED <<now, tableIdle>>

NextHeapSweep ==
    \/ Tick
    \/ \E key \in HeapKeys, x \in HeapValues : GCacheAdd(key, x)
    \/ GCachePop
    \/ \E key \in HeapKeys : GCacheRemove(key)
    \/ gc

SpecHeapSweep == InitHeap /\ [][NextHeapSweep]_vars

\* C25: the heap order: the entry at the parent position (i-1)/2 of every
\* position i > 0 expires no earlier than the entry at i, so the entry at
\* position 0 expires latest.
C25_HeapOrder ==
    /\ \A i \in 1..(Len(h.entries) - 1) :
          h.entries[GoDiv(i - 1, 2) + 1].expired >= h.entries[i + 1].expired
    /\ \A i \in 1..Len(h.entries) : h.entries[1].expired >= h.entries[i].expired

\* Remove has taken an entry out of a full heap, and the entries it left
\* expire at different times.
C25_Witness ==
    /\ last.op = "GCache.Remove"
    /\ last.len0 = MaxHeap
    /\ Len(h.entries) = MaxHeap - 1
    /\ h.entries[1].expired > h.entries[2].expired
    /\ last.k \notin DOMAIN h.indices

\* C26: keys and positions correspond: a key occurs once in entries at
\* most, entries and indices have the same size, and indices[k] = i exactly
\* when entries[i].key = k.
C26_KeyPosition ==
    /\ \A i, j \in 1..Len(h.entries) : h.entries[i].key = h.entries[j].key => i = j
    /\ Len(h.entries) = Cardinality(DOMAIN h.indices)
    /\ \A k \in HeapKeys, i \in 0..(Len(h.entries) - 1) :
          (k \in DOMAIN h.indices /\ h.indices[k] = i) <=> h.entries[i + 1].key = k
    /\ \A k \in DOMAIN h.indices : h.indices[k] < Len(h.entries)

\* The heaps that Add builds from hp with keys not yet stored, at times from
\* t on, with lifetime m.
RECURSIVE C27_Adds(_, _, _)
C27_Adds(hp, m, t) ==
    {hp} \cup
    IF Len(hp.entries) >= MaxHeap THEN {}
    ELSE UNION {C27_Adds(g[1], m, g[2]) :
                  g \in {<<cheapPush(hp, HEntry(k, x, t2 + m)), t2>> :
                            k \in HeapKeys \ DOMAIN hp.indices,
                            x \in HeapValues, t2 \in t..MaxTime}}

\* The heaps reachable through Add alone, keys distinct, times not decreasing.
C27_Built == [m \in MaxLifeTimes |-> C27_Adds(GCacheNew(m), m, 1)]

\* C27: when the loop of a tick at time now stops, on a heap built by Add
\* with distinct keys at non-decreasing times, no stored entry has an expiry
\* that is not after now.
C27_SweepRemovesExpired ==
    [][(last'.op = "GCache.gc" /\ h \in C27_Built[h.maxLifeTime]
          /\ \A i \in 1..Len(h.entries) : h.entries[i].expired <= now + h.maxLifeTime)
        => \A i \in 1..Len(h'.entries) : h'.entries[i].expired > now]_vars

\* C28: the loop of every tick ends, each of its iterations that does not
\* leave the loop having taken an entry out of the heap.
C28_TickTerminates ==
    last.op = "GCache.gc" => (last.ok /\ Len(h.entries) = last.len0 - last.n)

=============================================================================
